---- MODULE Spec2Model ----
(***************************************************************************)
(* A model of vtndb: the VT-100 terminal driver (terminal.py), the main    *)
(* polling loop, the navigation stack and the text layout engine (ndb.py), *)
(* page lookup (wiki.py).                                                  *)
(*                                                                         *)
(* Specifications:                                                         *)
(*   TermSpec  the Terminal object under an arbitrary client that calls    *)
(*             recvInput, fetchCursor and checkOk in any order, while the  *)
(*             user types keys and the terminal answers queries;           *)
(*   Spec      the main loop of ndb.py driving the same Terminal object;   *)
(*   LiveSpec  Spec with weak fairness on the program's own steps;         *)
(*   HoldSpec  the main loop while the user holds Up or Down;              *)
(*   NavSpec   the Navigation stack under the main loop's actions;         *)
(*   EditSpec  the command line being edited, key by key;                  *)
(*   CmdSpec   the command line: the keys of commands, typed one by one,   *)
(*             through Renderer.processInput and main's handling;          *)
(*   WrapSpec  TextRendererCore.wordWrap on bounded texts and widths;      *)
(*   LayoutSpec  TextRendererCore: displayText and the moves of the        *)
(*             viewport, with what each sends to the terminal.             *)
(***************************************************************************)
EXTENDS Integers, Sequences, FiniteSets, TLC

VARIABLES
    wire,         \* bytes the terminal has sent that serial.read() has not returned yet
    owed,         \* the query the terminal has received and not answered yet
    cursor,       \* the terminal's cursor position <<row, col>>
    leftover,     \* Terminal.leftover
    pending,      \* Terminal.pending
    accum,        \* _recvResponseImpl: accum (kept after the frame returns)
    gotResponse,  \* _recvResponseImpl: gotResponse
    waited,       \* _recvResponseImpl: an empty read has already been made since start
    pc,           \* position of the program
    call,         \* the Terminal method in progress: "input", "cursor" or "status"
    ret,          \* value returned by the last recvInput (None by checkOk)
    pos,          \* value returned by the last fetchCursor
    crash,        \* the uncaught exception that ended the session, "" when none
    entryLeftover,\* Terminal.leftover when the last recvInput began to read, <<>> if it did not read
    queries,      \* number of queries the client has issued
    typed,        \* keys typed by the user so far, in order
    delivered,    \* items returned by recvInput so far, in order
    fates,        \* per delivered item: "d" dispatched to processInput, "x" discarded
    inputVal,     \* main: inputVal
    queueAtDeq,   \* Terminal.pending when main's recvInput (line 1382) dequeued inputVal
    dispatched,   \* items passed to Renderer.processInput so far, in order
    scrolls,      \* scrollUp / scrollDown calls made so far, in order
    input,        \* Renderer.input
    line,         \* TextRendererCore.line
    stack,        \* Navigation.stack
    page,         \* main's page: the value of the last navigate() / back()
    errRoot,      \* Wiki.nonexistant.root
    columns,      \* Terminal.columns
    navLog,       \* history: "n" per navigate() call, "b" per back() call
    stackBefore,  \* history: Navigation.stack before the last navigate()
    lastError,    \* Renderer.lastError: the banner on display, as tokens
    text,         \* TextRendererCore.text: the wrapped lines on display
    sent,         \* history: what the last layout operation sent to the terminal
    op,           \* history: the last layout operation
    lineBefore,   \* history: the scroll offset before the last layout operation
    source,       \* the text handed to wordWrap
    wrapped,      \* wordWrap(source)
    rewrapped,    \* wordWrap(wordWrap(source))
    restText,     \* wordWrap: text, what the loop has not consumed yet
    joinedText,   \* wordWrap: newText
    currentLine,  \* wordWrap: curLine
    core,         \* Renderer.renderer: its class and what the class adds to TextRendererCore
    todo,         \* the rest of the command the user is typing
    cmd,          \* history: the command last submitted, stripped
    action,       \* history: the action processInput last returned
    wrote,        \* history: what handling the last submitted command or action sent
    exitCode,     \* the value main returned, <<>> while it runs
    submits       \* history: the number of commands the user has begun to type

termVars == <<wire, owed, cursor, leftover, pending, accum, gotResponse, waited>>
ctlVars  == <<pc, call, ret, pos, crash, entryLeftover, queries>>
histVars == <<typed, delivered, fates>>
mainVars == <<inputVal, queueAtDeq, dispatched, scrolls, input, line>>
navVars  == <<stack, page, errRoot, columns, navLog, stackBefore, lastError>>
outVars  == <<sent, op, lineBefore>>
loopVars == <<restText, joinedText, currentLine>>
wrapVars == <<source, wrapped, rewrapped, loopVars>>
layVars  == <<text, outVars, wrapVars>>
cmdVars  == <<core, todo, cmd, action, wrote, exitCode, submits>>
vars     == <<termVars, ctlVars, histVars, mainVars, navVars, layVars, cmdVars>>

(***************************************************************************)
(* Bounds of the model.                                                    *)
(***************************************************************************)
MaxKeys    == 2     \* keys the user types in a run
MaxQueries == 1     \* queries the arbitrary client of TermSpec issues
ExtraLines == 2     \* lines of the displayed text beyond one viewport
MaxHeld    == 5     \* Up / Down codes a held key sends in a run of HoldSpec
MaxNav     == 4     \* navigate() / back() calls in a run of NavSpec
MaxText    == 5     \* characters of a text handed to wordWrap in WrapSpec
MaxWidth   == 4     \* widest terminal of the bounded texts of WrapSpec
MaxCmds    == 2     \* times the user sets out to type in a run of CmdSpec
MaxInput   == 3     \* characters of the command line in a run of EditSpec
MaxStrikes == 3     \* keys struck once the command line is full in a run of MarginSpec

(***************************************************************************)
(* Bytes.  A byte is <<character, origin>>; the origin ("key": typed by    *)
(* the user, "resp": part of a terminal response) is never read by the     *)
(* program, only by the properties.                                        *)
(***************************************************************************)
ESCAPE == "ESC"
KeyByte(c)  == <<c, "key">>
RespByte(c) == <<c, "resp">>
Ch(b) == b[1]
Chars(bs) == [i \in 1..Len(bs) |-> bs[i][1]]

REQUEST_STATUS == <<"[", "5", "n">>
STATUS_OKAY    == <<"[", "0", "n">>
REQUEST_CURSOR == <<"[", "6", "n">>
UP        == <<"[", "A">>
DOWN      == <<"[", "B">>
LEFT      == <<"[", "D">>
RIGHT     == <<"[", "C">>
BACKSPACE == <<"DEL">>   \* the byte 0x7F
\* Terminal.DELETE, which ndb.py line 1204 reads and terminal.py does not
\* define: a key of its own
DELETE    == <<"BS">>
None      == <<>>

Digits == {"0", "1", "2", "3", "4", "5", "6", "7", "8", "9"}
ParamBytes == Digits \cup {";", "?", "["}

TerminalRows == 24
TerminalColumns == 80

(***************************************************************************)
(* Decimal text of a natural number (Python's f"{n}") and its value        *)
(* (Python's int() on a digit string).                                     *)
(***************************************************************************)
DigitChar(d) ==
    CASE d = 0 -> "0" [] d = 1 -> "1" [] d = 2 -> "2" [] d = 3 -> "3" [] d = 4 -> "4"
      [] d = 5 -> "5" [] d = 6 -> "6" [] d = 7 -> "7" [] d = 8 -> "8" [] d = 9 -> "9"

DigitVal(c) ==
    CASE c = "0" -> 0 [] c = "1" -> 1 [] c = "2" -> 2 [] c = "3" -> 3 [] c = "4" -> 4
      [] c = "5" -> 5 [] c = "6" -> 6 [] c = "7" -> 7 [] c = "8" -> 8 [] c = "9" -> 9

RECURSIVE IntToDigits(_)
IntToDigits(n) ==
    IF n < 10 THEN <<DigitChar(n)>>
    ELSE Append(IntToDigits(n \div 10), DigitChar(n % 10))

RECURSIVE DigitsToInt(_)
DigitsToInt(s) ==
    IF s = <<>> THEN 0
    ELSE 10 * DigitsToInt(SubSeq(s, 1, Len(s) - 1)) + DigitVal(s[Len(s)])

\* int(s) succeeds.  The bytes between '[' and the terminator of a frame are
\* parameter bytes only, so signs, blanks and underscores never reach int().
IsInt(s) == s # <<>> /\ \A i \in 1..Len(s) : s[i] \in Digits

\* The cursor report the terminal sends for position <<row, col>>, after ESC.
CursorReport(at) == <<"[">> \o IntToDigits(at[1]) \o <<";">> \o IntToDigits(at[2]) \o <<"R">>

(***************************************************************************)
(* Terminal.fetchCursor, lines 84-88: the parse of the framed response.    *)
(* resp is a sequence of characters.                                       *)
(***************************************************************************)
\* index of the first ';' of s, 0 when there is none (str.split(";", 1))
FirstSemi(s) ==
    IF \E i \in 1..Len(s) : s[i] = ";"
    THEN CHOOSE i \in 1..Len(s) : s[i] = ";" /\ \A j \in 1..(i - 1) : s[j] # ";"
    ELSE 0

ParseCursorBug(resp) ==
    LET respstr == SubSeq(resp, 2, Len(resp) - 1)
        semi    == FirstSemi(respstr)
        row     == SubSeq(respstr, 1, semi - 1)
        col     == SubSeq(respstr, semi + 1, Len(respstr))
    IN  IF resp = <<>> \/ resp[Len(resp)] # "R"
        THEN [ok |-> FALSE, err |-> "Invalid response for cursor fetch!"]
        ELSE IF semi = 0 \/ ~IsInt(row) \/ ~IsInt(col)
        THEN [ok |-> FALSE, err |-> "ValueError"]
        ELSE [ok |-> TRUE, row |-> DigitsToInt(row), col |-> DigitsToInt(col)]

ParseCursor(resp) ==
    LET respstr == SubSeq(resp, 2, Len(resp) - 1)
        semi    == FirstSemi(respstr)
        row     == SubSeq(respstr, 1, semi - 1)
        col     == SubSeq(respstr, semi + 1, Len(respstr))
    IN  IF resp = <<>> \/ resp[1] # "[" \/ resp[Len(resp)] # "R"
        THEN [ok |-> FALSE, err |-> "Invalid response for cursor fetch!"]
        ELSE IF semi = 0 \/ ~IsInt(row) \/ ~IsInt(col)
        THEN [ok |-> FALSE, err |-> "ValueError"]
        ELSE [ok |-> TRUE, row |-> DigitsToInt(row), col |-> DigitsToInt(col)]

(***************************************************************************)
(* Terminal._recvResponseImpl, lines 137-178: what a completed frame       *)
(* holds.  acc is the accumulated byte sequence.                           *)
(***************************************************************************)
\* number of leading bytes of acc that are not ESC (lines 140-142)
RECURSIVE LiteralPrefix(_)
LiteralPrefix(acc) ==
    IF acc = <<>> \/ Ch(Head(acc)) = ESCAPE THEN 0
    ELSE 1 + LiteralPrefix(Tail(acc))

\* index of the first byte of body that is not a parameter byte, 0 when there
\* is none (lines 148-170)
EndMarker(body) ==
    IF \E i \in 1..Len(body) : Ch(body[i]) \notin ParamBytes
    THEN CHOOSE i \in 1..Len(body) :
            /\ Ch(body[i]) \notin ParamBytes
            /\ \A j \in 1..(i - 1) : Ch(body[j]) \in ParamBytes
    ELSE 0

\* lits: the items queued from the literal prefix; kind: "literal" (no escape
\* byte), "response" (a terminated sequence), "unterminated" (line 172);
\* resp: the sequence from after ESC through its terminator; rest: what follows.
SplitFrameBug(acc) ==
    LET n    == LiteralPrefix(acc)
        lits == [i \in 1..n |-> <<acc[i]>>]
        body == SubSeq(acc, n + 2, Len(acc))
        e    == EndMarker(body)
    IN  IF n = Len(acc)
        THEN [lits |-> lits, kind |-> "literal", resp |-> <<>>, rest |-> <<>>]
        ELSE IF e = 0
        THEN [lits |-> lits, kind |-> "unterminated", resp |-> <<>>, rest |-> <<>>]
        ELSE [lits |-> lits, kind |-> "response", resp |-> SubSeq(body, 1, e),
              rest |-> <<>>]

SplitFrame(acc) ==
    LET n    == LiteralPrefix(acc)
        lits == [i \in 1..n |-> <<acc[i]>>]
        body == SubSeq(acc, n + 2, Len(acc))
        e    == EndMarker(body)
    IN  IF n = Len(acc)
        THEN [lits |-> lits, kind |-> "literal", resp |-> <<>>, rest |-> <<>>]
        ELSE IF e = 0
        THEN [lits |-> lits, kind |-> "unterminated", resp |-> <<>>, rest |-> <<>>]
        ELSE [lits |-> lits, kind |-> "response", resp |-> SubSeq(body, 1, e),
              rest |-> SubSeq(body, e + 1, Len(body))]

\* recvResponse, line 118
IsArrowBug(resp) == resp # <<>> /\ Ch(resp[1]) = "["

IsArrow(resp) == Chars(resp) \in {UP, DOWN, LEFT, RIGHT}

(***************************************************************************)
(* The user and the terminal.                                              *)
(***************************************************************************)
Keys == {"x", "Up", "Down", "Left", "Right", "Bksp"}

\* the code (after ESC for an arrow key) that a key sends
KeyCode(k) ==
    CASE k = "Up" -> UP [] k = "Down" -> DOWN [] k = "Left" -> LEFT
      [] k = "Right" -> RIGHT [] k = "Bksp" -> BACKSPACE [] OTHER -> <<k>>

IsArrowKey(k) == k \in {"Up", "Down", "Left", "Right"}

\* the item of Terminal.pending a key becomes
KeyItem(k) == [i \in 1..Len(KeyCode(k)) |-> KeyByte(KeyCode(k)[i])]

\* the bytes a key puts on the serial line
KeyBytes(k) == IF IsArrowKey(k) THEN <<KeyByte(ESCAPE)>> \o KeyItem(k) ELSE KeyItem(k)

RespBytes(chars) == <<RespByte(ESCAPE)>> \o [i \in 1..Len(chars) |-> RespByte(chars[i])]

\* answers a terminal in disorder may give to a cursor query
BadCursorAnswers ==
    { <<"[", "2", "4", "R">>,
      <<"[", "2", "4", ";", "R">>,
      <<"[", "2", "4", ";", "1", ";", "1", "R">>,
      <<"2", "4", ";", "1", "R">>,
      <<"[", "2", "4", ";", "1", "H">>,
      <<"[", "0", "n">> }

BadStatusAnswers == { <<"[", "3", "n">> }

\* the answer of a terminal in order
GoodAnswer(q) == IF q = "cursor" THEN CursorReport(cursor) ELSE STATUS_OKAY

BadAnswers(q) == IF q = "cursor" THEN BadCursorAnswers ELSE BadStatusAnswers

\* The user presses a key: its bytes follow whatever the terminal sent before.
TypeKey(k) ==
    /\ pc \notin {"crashed", "done"}
    /\ wire' = wire \o KeyBytes(k)
    /\ typed' = Append(typed, k)
    /\ UNCHANGED <<owed, cursor, leftover, pending, accum, gotResponse, waited>>
    /\ UNCHANGED <<ctlVars, delivered, fates, mainVars, navVars, layVars, cmdVars>>

\* The terminal answers the query it has received with a.
Answer(a) ==
    /\ pc # "crashed"
    /\ owed # "none"
    /\ wire' = wire \o RespBytes(a)
    /\ owed' = "none"
    /\ UNCHANGED <<cursor, leftover, pending, accum, gotResponse, waited>>
    /\ UNCHANGED <<ctlVars, histVars, mainVars, navVars, layVars, cmdVars>>

(***************************************************************************)
(* Terminal._recvResponseImpl / recvResponse / recvInput / fetchCursor /   *)
(* checkOk.                                                                *)
(***************************************************************************)
\* _recvResponseImpl is entered (lines 124-127) on behalf of method c
StartFrame(c) ==
    /\ pc' = "frame"
    /\ call' = c
    /\ accum' = <<>>
    /\ gotResponse' = FALSE
    /\ waited' = FALSE

\* lines 131-135 and 182-183: a byte is taken, from leftover first
ReadByteBug ==
    /\ pc = "frame"
    /\ IF wire # <<>>
       THEN /\ accum' = Append(accum, Head(wire))
            /\ wire' = Tail(wire)
            /\ leftover' = leftover
       ELSE /\ leftover # <<>>
            /\ accum' = Append(accum, Head(leftover))
            /\ leftover' = Tail(leftover)
            /\ wire' = wire
    /\ gotResponse' = TRUE
    /\ UNCHANGED <<owed, cursor, pending, waited>>
    /\ UNCHANGED <<ctlVars, histVars, mainVars, navVars, layVars, cmdVars>>

ReadByte ==
    /\ pc = "frame"
    /\ IF leftover # <<>>
       THEN /\ accum' = Append(accum, Head(leftover))
            /\ leftover' = Tail(leftover)
            /\ wire' = wire
       ELSE /\ wire # <<>>
            /\ accum' = Append(accum, Head(wire))
            /\ wire' = Tail(wire)
            /\ leftover' = leftover
    /\ gotResponse' = TRUE
    /\ UNCHANGED <<owed, cursor, pending, waited>>
    /\ UNCHANGED <<ctlVars, histVars, mainVars, navVars, layVars, cmdVars>>

\* The state in which recvResponse's value resp reaches the method that
\* called it, with pend the queue and lo the leftover at that moment:
\*   recvInput (lines 189-196) drops resp and dequeues one item;
\*   fetchCursor (lines 83-88) parses resp or raises;
\*   checkOk (lines 61-62) compares resp with STATUS_OKAY or raises.
MethodResult(resp, pend, lo) ==
    LET base == [pc |-> "ret", ret |-> None, pos |-> pos, crash |-> crash, pending |-> pend,
                 leftover |-> lo, accum |-> accum, gotResponse |-> gotResponse,
                 waited |-> waited, delivered |-> delivered]
        p == ParseCursor(Chars(resp))
    IN  CASE call = "input" ->
               IF pend # <<>>
               THEN [base EXCEPT !.ret = Head(pend), !.pending = Tail(pend),
                                 !.delivered = Append(delivered, Head(pend))]
               ELSE base
          [] call = "cursor" ->
               IF p.ok THEN [base EXCEPT !.pos = <<p.row, p.col>>]
               ELSE [base EXCEPT !.pc = "crashed", !.crash = p.err]
          [] call = "status" ->
               IF Chars(resp) = STATUS_OKAY THEN base
               ELSE [base EXCEPT !.pc = "crashed", !.crash = "Terminal is not okay!"]

\* lines 137-180 and 116-121: a read returned nothing.  expired is the value
\* of (time.time() - start) > timeout, f is what accum holds (SplitFrame).
GapResult(expired, f) ==
    LET pend == pending \o f.lits
        same == [pc |-> pc, ret |-> ret, pos |-> pos, crash |-> crash, pending |-> pending,
                 leftover |-> leftover, accum |-> accum, gotResponse |-> gotResponse,
                 waited |-> waited, delivered |-> delivered]
    IN  IF ~(gotResponse \/ (call = "input" /\ expired))
        THEN [same EXCEPT !.waited = (call = "input")]
        ELSE CASE f.kind = "unterminated" ->
                    [same EXCEPT !.pc = "crashed", !.pending = pend,
                         !.crash = "Should have found end of command marker!"]
               [] f.kind = "literal" ->
                    IF call = "input" THEN MethodResult(<<>>, pend, leftover)
                    ELSE [same EXCEPT !.pending = pend, !.accum = <<>>,
                                      !.gotResponse = FALSE]
               [] f.kind = "response" ->
                    IF IsArrow(f.resp)
                    THEN [same EXCEPT !.pending = Append(pend, f.resp),
                                      !.leftover = leftover \o f.rest,
                                      !.accum = <<>>, !.gotResponse = FALSE,
                                      !.waited = FALSE]
                    ELSE MethodResult(f.resp, pend, leftover \o f.rest)

ReadGap ==
    /\ pc = "frame"
    /\ leftover = <<>>
    /\ \E expired \in (IF waited THEN {TRUE} ELSE BOOLEAN) :
         \E f \in {SplitFrame(accum)} : \E r \in {GapResult(expired, f)} :
             /\ pc' = r.pc
             /\ ret' = r.ret
             /\ pos' = r.pos
             /\ crash' = r.crash
             /\ pending' = r.pending
             /\ leftover' = r.leftover
             /\ accum' = r.accum
             /\ gotResponse' = r.gotResponse
             /\ waited' = r.waited
             /\ delivered' = r.delivered
    /\ UNCHANGED <<wire, owed, cursor, call, entryLeftover, queries>>
    /\ UNCHANGED <<typed, fates, mainVars, navVars, layVars, cmdVars>>

\* Terminal.recvInput, lines 185-196, up to its read of the line
RecvInput ==
    /\ IF pending = <<>>
       THEN /\ StartFrame("input")
            /\ entryLeftover' = leftover
            /\ UNCHANGED <<pending, ret, pos, delivered>>
       ELSE /\ pc' = "ret"
            /\ entryLeftover' = <<>>
            /\ call' = "input"
            /\ ret' = Head(pending)
            /\ pending' = Tail(pending)
            /\ delivered' = Append(delivered, Head(pending))
            /\ UNCHANGED <<accum, gotResponse, waited>>
    /\ UNCHANGED <<wire, owed, cursor, leftover, pos, crash, queries>>

\* Terminal.fetchCursor, lines 82-83: the request is sent, the wait begins
FetchCursor ==
    /\ owed' = "cursor"
    /\ StartFrame("cursor")
    /\ UNCHANGED <<wire, cursor, leftover, pending, ret, pos, crash, entryLeftover, delivered>>

\* Terminal.checkOk, lines 60-61
CheckOk ==
    /\ owed' = "status"
    /\ StartFrame("status")
    /\ UNCHANGED <<wire, cursor, leftover, pending, ret, pos, crash, entryLeftover, delivered>>

(***************************************************************************)
(* ndb.py: the rows of the viewport (lines 1017, 1051), and texts.  A text *)
(* is the sequence of its characters.                                      *)
(***************************************************************************)
ViewTop    == 3
ViewBottom == TerminalRows - 2
ViewRows   == (ViewBottom - ViewTop) + 1
\* the lines of the text of the home page
NumLines   == ViewRows + ExtraLines

NL == "\n"
SP == " "

\* a text of n lines, the i-th being the number i
RECURSIVE Numbered(_)
Numbered(n) ==
    IF n = 0 THEN <<>>
    ELSE IF n = 1 THEN IntToDigits(1)
    ELSE Numbered(n - 1) \o <<NL>> \o IntToDigits(n)

(***************************************************************************)
(* wiki.py: Wiki.getPage.  An identifier, a path or a link is the sequence *)
(* of its tokens: each ":", "." and "/" is a token of its own, every other *)
(* token is a run of other characters.                                     *)
(***************************************************************************)
\* Page.data as the renderers read it: its characters, the root words and
\* the words of a dictionary (lines 532-535), the first month and year and
\* the events of a calendar (lines 779-797)
NoData ==
    [text |-> <<>>, roots |-> <<>>, words |-> <<>>,
     startMonth |-> 1, startYear |-> 1, events |-> <<>>]

\* the wiki the program has loaded (Wiki.__init__, lines 92-141)
Domains ==
    << [root    |-> <<"NX", ".", "INDEX">>,
        default |-> <<"/", "MAIN">>,
        error   |-> <<"/", "ERR">>,
        pages   |-> << [name |-> <<"Main">>,
                        path |-> <<"/", "MAIN">>, extension |-> <<"TEXT">>,
                        links |-> << <<"/", "A">>, <<"NX", ".", "TOOLS", ":", "/", "WORDS">> >>,
                        data |-> [NoData EXCEPT !.text = Numbered(NumLines)]],
                       [name |-> <<>>,
                        path |-> <<"/", "A">>, extension |-> <<>>,
                        links |-> << <<"MAIN">> >>,
                        data |-> [NoData EXCEPT !.text = <<"a", "c", "s", "s", "b">>]],
                       [name |-> <<"Error">>,
                        path |-> <<"/", "ERR">>, extension |-> <<"TEXT">>,
                        links |-> <<>>,
                        data |-> [NoData EXCEPT !.text = <<"V", "o", "i", "d">>]] >>],
       [root    |-> <<"NX", ".", "BARE">>,
        default |-> <<"/", "MAIN">>,
        error   |-> <<"/", "ERR">>,
        pages   |-> << [name |-> <<"Bare">>,
                        path |-> <<"/", "MAIN">>, extension |-> <<>>,
                        links |-> <<>>,
                        data |-> [NoData EXCEPT !.text = <<"b">>]],
                       [name |-> <<"Sys">>,
                        path |-> <<"/", "SYS">>, extension |-> <<"INT">>,
                        links |-> <<>>,
                        data |-> [NoData EXCEPT !.text = <<"s", "y", "s">>]] >>],
       [root    |-> <<"NX", ".", "TOOLS">>,
        default |-> <<"/", "FIND">>,
        error   |-> <<"/", "FIND">>,
        pages   |-> << [name |-> <<"Find">>,
                        path |-> <<"/", "FIND">>, extension |-> <<"SRCH">>,
                        links |-> <<>>,
                        data |-> [NoData EXCEPT !.text = <<"d", NL, "r", NL, "h">>]],
                       [name |-> <<"Words">>,
                        path |-> <<"/", "WORDS">>, extension |-> <<"DICT">>,
                        links |-> <<>>,
                        data |-> [NoData EXCEPT !.text = <<"K", "a", " ", "k", "a", "b">>,
                                                !.roots = << <<"k", "a">> >>,
                                                !.words = << <<"k", "a", "b">> >>]],
                       [name |-> <<"Dates">>,
                        path |-> <<"/", "DATES">>, extension |-> <<"CLND">>,
                        links |-> <<>>,
                        data |-> [NoData EXCEPT !.text = <<"a">>, !.events =
                                    << [date |-> <<2, 1, 1>>,
                                        link |-> <<"NX", ".", "INDEX", ":", "/", "A">>] >>]] >>] >>

\* Wiki.nonexistant, lines 144-163; its root is the variable errRoot
Nonexistant ==
    [default |-> <<>>, error |-> <<>>,
     pages   |-> << [name |-> <<"Connection Error">>,
                     path |-> <<>>, extension |-> <<"INT">>, links |-> <<>>,
                     data |-> [NoData EXCEPT !.text = <<"c", "o", "n", "n", "e", "r", "r">>]] >>]

\* Wiki.help, lines 166-185
Help ==
    [root |-> <<"LOCAL", ".", "HELP">>, default |-> <<>>, error |-> <<>>,
     pages |-> << [name |-> <<"Command Line Help">>,
                   path |-> <<>>, extension |-> <<"INT">>,
                   links |-> << <<"NX", ".", "HELP", ":", "/", "MAIN", "/", "COMHELP">> >>,
                   data |-> [NoData EXCEPT !.text = <<"h", "e", "l", "p">>]] >>]

HomeUri == <<"NX", ".", "INDEX">>
HelpUri == <<"LOCAL", ".", "HELP">>

\* index of the first ":" of uri, 0 when there is none (uri.split(":", 1))
FirstColon(uri) ==
    IF \E i \in 1..Len(uri) : uri[i] = ":"
    THEN CHOOSE i \in 1..Len(uri) : uri[i] = ":" /\ \A j \in 1..(i - 1) : uri[j] # ":"
    ELSE 0

\* lines 188-192
UriDomain(uri) ==
    IF FirstColon(uri) = 0 THEN uri ELSE SubSeq(uri, 1, FirstColon(uri) - 1)

UriHasPath(uri) == FirstColon(uri) # 0

UriPath(uri) == SubSeq(uri, FirstColon(uri) + 1, Len(uri))

\* the page object p of a domain: kind tells wiki.domains[idx] from Wiki.help
\* and Wiki.nonexistant
PageOf(kind, idx, p) ==
    [kind |-> kind, idx |-> idx, name |-> p.name, path |-> p.path,
     extension |-> p.extension, links |-> p.links, data |-> p.data]

NoPage ==
    PageOf("none", 0, [name |-> <<>>, path |-> <<>>, extension |-> <<>>, links |-> <<>>, data |-> NoData])

\* lines 207-211 and 214-216: the first of the pages ps whose index is in
\* hits, as a sequence of one page, or the empty sequence
FirstPage(ps, hits) ==
    IF hits = {} THEN <<>>
    ELSE <<ps[CHOOSE i \in hits : \A j \in hits : i <= j]>>

\* Wiki.getPage, lines 187-222.  The value holds the page returned (ok), or
\* tells that WikiException was raised, and the root the call leaves in
\* Wiki.nonexistant (line 196).
GetPage(uri) ==
    LET domain == UriDomain(uri)
        Chosen(hit, err, kind, idx) ==
            IF hit # <<>> THEN [ok |-> TRUE, page |-> PageOf(kind, idx, hit[1]), root |-> domain]
            ELSE IF err # <<>> THEN [ok |-> TRUE, page |-> PageOf(kind, idx, err[1]), root |-> domain]
            ELSE [ok |-> FALSE, page |-> NoPage, root |-> domain]
        Search(found, kind, idx) ==
            LET path   == IF UriHasPath(uri) THEN UriPath(uri) ELSE found.default
                Match(p) == \/ p.path = path
                            \/ p.extension # <<>> /\ (p.path \o <<".">> \o p.extension) = path
                IsError(p) == p.path = found.error
                pages  == found.pages
            IN  Chosen(FirstPage(pages, { i \in 1..Len(pages) : Match(pages[i]) }),
                       FirstPage(pages, { i \in 1..Len(pages) : IsError(pages[i]) }),
                       kind, idx)
        First(known) == CHOOSE i \in known : \A j \in known : i <= j
        Lookup(known) ==
            IF known # {} THEN Search(Domains[First(known)], "domain", First(known))
            ELSE IF Help.root = domain THEN Search(Help, "help", 0)
            ELSE Search(Nonexistant, "nonexistant", 0)
    IN  Lookup({ i \in 1..Len(Domains) : Domains[i].root = domain })

\* Wiki.getAllPages, lines 224-232, as the identifiers main builds at line 1424
RandomUris ==
    UNION { { Domains[i].root \o <<":">> \o Domains[i].pages[j].path :
                j \in { k \in 1..Len(Domains[i].pages) :
                           Domains[i].pages[k].path # Domains[i].error } } :
            i \in 1..Len(Domains) }

(***************************************************************************)
(* ndb.py: Navigation.                                                     *)
(***************************************************************************)
\* Navigation.canGoBack, lines 63-64
CanGoBackBug(s) == Len(s) >= 1

CanGoBack(s) == Len(s) > 1

\* line 73: self.stack[:-1]
PopBug(s) == s

Pop(s) == SubSeq(s, 1, Len(s) - 1)

\* Navigation.navigate, lines 60-62: the stack, the log, the page returned
\* or the exception raised
NavigateResultBug(uri) ==
    LET Got(r) ==
            [stack |-> Append(stack, uri), errRoot |-> r.root,
             navLog |-> Append(navLog, "n"), stackBefore |-> stack,
             ok |-> r.ok, page |-> IF r.ok THEN r.page ELSE page,
             crash |-> IF r.ok THEN crash ELSE "WikiException"]
    IN  Got(GetPage(IF stack = <<>> THEN uri ELSE stack[Len(stack)]))

NavigateResult(uri) ==
    LET Got(r) ==
            [stack |-> Append(stack, uri), errRoot |-> r.root,
             navLog |-> Append(navLog, "n"), stackBefore |-> stack,
             ok |-> r.ok, page |-> IF r.ok THEN r.page ELSE page,
             crash |-> IF r.ok THEN crash ELSE "WikiException"]
    IN  Got(GetPage(uri))

\* Navigation.back, lines 66-74
BackResultBug ==
    LET s == Pop(stack)
        same == [stack |-> stack, errRoot |-> errRoot, navLog |-> navLog,
                 stackBefore |-> stackBefore, ok |-> FALSE, page |-> page,
                 crash |-> "NavigationException"]
    IN  IF s = <<>>
        THEN [same EXCEPT !.stack = s, !.navLog = Append(navLog, "b"),
                          !.crash = "IndexError"]
        ELSE LET Got(r) ==
                     [same EXCEPT !.stack = s, !.navLog = Append(navLog, "b"),
                                  !.errRoot = r.root, !.ok = r.ok,
                                  !.page = IF r.ok THEN r.page ELSE page,
                                  !.crash = IF r.ok THEN crash ELSE "WikiException"]
             IN  Got(GetPage(s[Len(s)]))

BackResult ==
    LET s == Pop(stack)
        same == [stack |-> stack, errRoot |-> errRoot, navLog |-> navLog,
                 stackBefore |-> stackBefore, ok |-> FALSE, page |-> page,
                 crash |-> "NavigationException"]
    IN  IF ~CanGoBack(stack) THEN same
        ELSE IF s = <<>>
        THEN [same EXCEPT !.stack = s, !.navLog = Append(navLog, "b"),
                          !.crash = "IndexError"]
        ELSE LET Got(r) ==
                     [same EXCEPT !.stack = s, !.navLog = Append(navLog, "b"),
                                  !.errRoot = r.root, !.ok = r.ok,
                                  !.page = IF r.ok THEN r.page ELSE page,
                                  !.crash = IF r.ok THEN crash ELSE "WikiException"]
             IN  Got(GetPage(s[Len(s)]))

\* Navigation.__init__, lines 55-57, before main's first navigate
NavFresh ==
    /\ stack = <<>> /\ page = NoPage /\ errRoot = <<"LOCAL", ".", "ERR">>
    /\ columns = TerminalColumns
    /\ navLog = <<>> /\ stackBefore = <<>>
    /\ lastError = <<>>

\* main, lines 1370-1376: the home page is on display
NavStarted ==
    /\ stack = <<HomeUri>> /\ page = GetPage(HomeUri).page
    /\ errRoot = GetPage(HomeUri).root
    /\ columns = TerminalColumns
    /\ navLog = <<"n">> /\ stackBefore = <<>>
    /\ lastError = <<>>

(***************************************************************************)
(* TermSpec: an arbitrary client of the Terminal object.                   *)
(***************************************************************************)
\* the client is between two calls
ClientReady == pc \in {"idle", "ret"}

ClientRecvInput ==
    /\ ClientReady
    /\ RecvInput
    /\ UNCHANGED <<typed, fates, mainVars, navVars, layVars, cmdVars>>

ClientFetchCursor ==
    /\ ClientReady
    /\ queries < MaxQueries
    /\ queries' = queries + 1
    /\ FetchCursor
    /\ UNCHANGED <<typed, fates, mainVars, navVars, layVars, cmdVars>>

ClientCheckOk ==
    /\ ClientReady
    /\ queries < MaxQueries
    /\ queries' = queries + 1
    /\ CheckOk
    /\ UNCHANGED <<typed, fates, mainVars, navVars, layVars, cmdVars>>

\* a terminal in order
TerminalAnswer == Answer(GoodAnswer(owed))

\* a terminal in disorder
TerminalBadAnswer == \E a \in BadAnswers(owed) : Answer(a)

TermKeys == {"x", "Up", "Down"}

\* the Action classes, lines 12-48; a SettingAction without a value holds
\* "None", which is what lines 1404-1407 make of None
NoAction == [type |-> "None", uri |-> <<>>, setting |-> "", value |-> ""]

ActionOf(type) == [NoAction EXCEPT !.type = type]

NavigateAction(uri) == [NoAction EXCEPT !.type = "Navigate", !.uri = uri]

SettingAction(setting, value) ==
    [NoAction EXCEPT !.type = "Setting", !.setting = setting, !.value = value]

\* Renderer.renderer: the class, and the fields the class adds to
\* TextRendererCore that a command changes
NoCore == [kind |-> "none", results |-> <<>>, links |-> <<>>,
           day |-> -1, month |-> 1, year |-> 1]

InitCommon ==
    /\ wire = <<>> /\ owed = "none"
    /\ leftover = <<>> /\ pending = <<>>
    /\ accum = <<>> /\ gotResponse = FALSE /\ waited = FALSE
    /\ call = "none" /\ ret = None /\ pos = <<0, 0>> /\ crash = ""
    /\ entryLeftover = <<>> /\ queries = 0
    /\ typed = <<>> /\ delivered = <<>> /\ fates = <<>>
    /\ inputVal = None /\ queueAtDeq = <<>> /\ dispatched = <<>> /\ scrolls = <<>>
    /\ input = <<>> /\ line = 0
    /\ todo = <<>> /\ cmd = <<>> /\ action = NoAction /\ wrote = <<>>
    /\ exitCode = <<>> /\ submits = 0

TermInit ==
    /\ InitCommon
    /\ NavFresh
    /\ core = NoCore
    /\ text = <<>> /\ sent = <<>> /\ op = "" /\ lineBefore = 0
    /\ source = <<>> /\ wrapped = <<>> /\ rewrapped = <<>>
    /\ restText = <<>> /\ joinedText = <<>> /\ currentLine = <<>>
    /\ pc = "idle"
    /\ cursor = <<6, 12>>

TermNext ==
    \/ \E k \in TermKeys : Len(typed) < MaxKeys /\ TypeKey(k)
    \/ TerminalAnswer
    \/ ReadByte
    \/ ReadGap
    \/ ClientRecvInput
    \/ ClientFetchCursor
    \/ ClientCheckOk

TermSpec == TermInit /\ [][TermNext]_vars

(***************************************************************************)
(* ndb.py: Renderer.processInput (keys) and the main loop.                 *)
(***************************************************************************)
Min(a, b) == IF a < b THEN a ELSE b

\* Python slices s[:n] and s[n:] for n >= 0
Take(s, n) == SubSeq(s, 1, Min(n, Len(s)))
Drop(s, n) == SubSeq(s, Min(n, Len(s)) + 1, Len(s))

(***************************************************************************)
(* ndb.py: TextRendererCore.wordWrap.  A text is the sequence of its       *)
(* characters.                                                             *)
(***************************************************************************)
\* str.find(c): the 0-based index of the first c of s, -1 when there is none
Find(s, c) ==
    IF \E i \in 1..Len(s) : s[i] = c
    THEN (CHOOSE i \in 1..Len(s) : s[i] = c /\ \A j \in 1..(i - 1) : s[j] # c) - 1
    ELSE -1

\* line 114: text.replace("\r\n", "\n"), which drops every carriage return
\* that a newline follows
ReplaceCRLF(s) ==
    LET kept == {i \in 1..Len(s) : ~(s[i] = "\r" /\ i < Len(s) /\ s[i + 1] = NL)}
    IN  IF Cardinality(kept) = Len(s) THEN s
        ELSE [k \in 1..Cardinality(kept) |->
                s[CHOOSE i \in kept : Cardinality({j \in kept : j <= i}) = k]]

\* joinLines, lines 119-134: the value is <<newText, curLine>> after the call
JoinLinesOverBug(newText, curLine) ==
    IF curLine = <<>> THEN <<newText, curLine>> ELSE <<curLine, <<>>>>

JoinLinesBug(newText, curLine) ==
    IF curLine = <<>> THEN <<newText, curLine>> ELSE <<newText \o curLine, <<>>>>

JoinLines(newText, curLine) ==
    IF curLine = <<>> THEN <<newText, curLine>>
    ELSE IF newText = <<>> THEN <<curLine, <<>>>>
    ELSE IF newText[Len(newText)] = NL THEN <<newText \o curLine, <<>>>>
    ELSE <<newText \o <<NL>> \o curLine, <<>>>>

\* one pass of the loop of lines 141-199 for a terminal of W columns, the
\* text left being txt: what is left, newText and curLine after it
WrapPassBug(txt, newText, curLine, W) ==
    LET spaceLeft   == W - Len(curLine)
        newlinePos  == Find(txt, NL)
        chunkLen    == newlinePos + 1
        found       == Find(txt, SP)
        nextIsSpace == found >= 0
        spacePos    == IF found < 0 THEN Len(txt) ELSE found
        word        == IF nextIsSpace THEN spacePos + 1 ELSE spacePos
        chunked     == JoinLines(newText, curLine \o Take(txt, chunkLen))
        split       == JoinLines(newText, curLine \o Take(txt, spaceLeft))
    IN  IF Len(txt) <= spaceLeft
        THEN [text |-> <<>>, newText |-> newText, curLine |-> curLine \o txt]
        ELSE IF newlinePos >= 0 /\ chunkLen <= spaceLeft + 1
        THEN [text |-> Drop(txt, chunkLen), newText |-> chunked[1], curLine |-> chunked[2]]
        ELSE IF spacePos < spaceLeft
        THEN [text |-> Drop(txt, word), newText |-> newText,
              curLine |-> curLine \o Take(txt, word)]
        ELSE IF spacePos = spaceLeft
        THEN [text |-> Drop(txt, word), newText |-> newText,
              curLine |-> curLine \o Take(txt, spacePos)
                            \o (IF nextIsSpace THEN <<NL>> ELSE <<>>)]
        ELSE IF curLine # <<>>
        THEN [text |-> txt, newText |-> newText, curLine |-> curLine]
        ELSE [text |-> Drop(txt, spaceLeft), newText |-> split[1], curLine |-> split[2]]

WrapPass(txt, newText, curLine, W) ==
    LET spaceLeft   == W - Len(curLine)
        newlinePos  == Find(txt, NL)
        chunkLen    == newlinePos + 1
        found       == Find(txt, SP)
        nextIsSpace == found >= 0
        spacePos    == IF found < 0 THEN Len(txt) ELSE found
        word        == IF nextIsSpace THEN spacePos + 1 ELSE spacePos
        joined      == JoinLines(newText, curLine)
        chunked     == JoinLines(newText, curLine \o Take(txt, chunkLen))
        split       == JoinLines(newText, curLine \o Take(txt, spaceLeft))
    IN  IF Len(txt) <= spaceLeft
        THEN [text |-> <<>>, newText |-> newText, curLine |-> curLine \o txt]
        ELSE IF newlinePos >= 0 /\ chunkLen <= spaceLeft + 1
        THEN [text |-> Drop(txt, chunkLen), newText |-> chunked[1], curLine |-> chunked[2]]
        ELSE IF spacePos < spaceLeft
        THEN [text |-> Drop(txt, word), newText |-> newText,
              curLine |-> curLine \o Take(txt, word)]
        ELSE IF spacePos = spaceLeft
        THEN [text |-> Drop(txt, word), newText |-> newText,
              curLine |-> curLine \o Take(txt, spacePos)
                            \o (IF nextIsSpace THEN <<NL>> ELSE <<>>)]
        ELSE IF curLine # <<>>
        THEN [text |-> txt, newText |-> joined[1], curLine |-> joined[2]]
        ELSE [text |-> Drop(txt, spaceLeft), newText |-> split[1], curLine |-> split[2]]

\* the loop of lines 141-199 and the final join of line 202, for a terminal
\* of W columns
RECURSIVE WrapLoop(_, _, _, _)
WrapLoop(txt, newText, curLine, W) ==
    LET spaceLeft   == W - Len(curLine)
        newlinePos  == Find(txt, NL)
        chunkLen    == newlinePos + 1
        found       == Find(txt, SP)
        nextIsSpace == found >= 0
        spacePos    == IF found < 0 THEN Len(txt) ELSE found
        word        == IF nextIsSpace THEN spacePos + 1 ELSE spacePos
        joined      == JoinLines(newText, curLine)
        chunked     == JoinLines(newText, curLine \o Take(txt, chunkLen))
        split       == JoinLines(newText, curLine \o Take(txt, spaceLeft))
    IN  IF txt = <<>> THEN joined[1]
        ELSE IF Len(txt) <= spaceLeft
        THEN WrapLoop(<<>>, newText, curLine \o txt, W)
        ELSE IF newlinePos >= 0 /\ chunkLen <= spaceLeft + 1
        THEN WrapLoop(Drop(txt, chunkLen), chunked[1], chunked[2], W)
        ELSE IF spacePos < spaceLeft
        THEN WrapLoop(Drop(txt, word), newText, curLine \o Take(txt, word), W)
        ELSE IF spacePos = spaceLeft
        THEN WrapLoop(Drop(txt, word), newText,
                      curLine \o Take(txt, spacePos) \o (IF nextIsSpace THEN <<NL>> ELSE <<>>),
                      W)
        ELSE IF curLine # <<>>
        THEN WrapLoop(txt, joined[1], joined[2], W)
        ELSE WrapLoop(Drop(txt, spaceLeft), split[1], split[2], W)

\* TextRendererCore.wordWrap, lines 112-203
WordWrapBug(txt, W) == ReplaceCRLF(txt)

WordWrap(txt, W) == WrapLoop(ReplaceCRLF(txt), <<>>, <<>>, W)

\* str.split("\n"), line 208
RECURSIVE SplitLines(_)
SplitLines(s) ==
    IF Find(s, NL) < 0 THEN <<s>>
    ELSE <<Take(s, Find(s, NL))>> \o SplitLines(Drop(s, Find(s, NL) + 1))

(***************************************************************************)
(* ndb.py: TextRendererCore, the viewport of rows ViewTop..ViewBottom.     *)
(* What an operation sends is a sequence of items: a command is ESCAPE     *)
(* followed by its bytes, a piece of text is its characters.               *)
(***************************************************************************)
SAVE_CURSOR     == <<"7">>
RESTORE_CURSOR  == <<"8">>
SET_BOLD        == <<"[", "1", "m">>
SET_NORMAL      == <<"[", "m">>
CLEAR_LINE      == <<"[", "2", "K">>
TURN_ON_REGION  == <<"[", "?", "6", "h">>
TURN_OFF_REGION == <<"[", "?", "6", "l">>
\* used by ndb.py lines 230, 243 and 403
MOVE_CURSOR_UP       == <<"M">>
MOVE_CURSOR_DOWN     == <<"D">>
CLEAR_TO_END_OF_LINE == <<"[", "K">>

\* Terminal.sendCommand, terminal.py lines 74-76
Cmd(c) == <<ESCAPE>> \o c

IsCmd(item) == item # <<>> /\ item[1] = ESCAPE

\* Terminal.moveCursor, terminal.py lines 78-79
MoveCursor(row, col) ==
    Cmd(<<"[">> \o IntToDigits(row) \o <<";">> \o IntToDigits(col) \o <<"H">>)

\* Terminal.setScrollRegion, terminal.py lines 108-110
SetScrollRegion(top, bottom) ==
    << Cmd(<<"[">> \o IntToDigits(top) \o <<";">> \o IntToDigits(bottom) \o <<"r">>),
       Cmd(TURN_ON_REGION) >>

\* Terminal.clearScrollRegion, terminal.py lines 112-113
ClearScrollRegion == << Cmd(TURN_OFF_REGION) >>

\* the state of one _displayText call
PaintStart ==
    [bolded |-> FALSE, boldRequested |-> FALSE, linkDepth |-> 0,
     displayed |-> 0, out |-> <<>>]

\* _displayText's local sendText, lines 316-327; Terminal.sendText of the
\* empty string writes nothing
SendTextBug(st, s) ==
    LET out1 == IF st.bolded # st.boldRequested
                THEN Append(st.out, Cmd(IF st.boldRequested THEN SET_BOLD ELSE SET_NORMAL))
                ELSE st.out
    IN  [st EXCEPT !.out = IF s = <<>> THEN out1 ELSE Append(out1, s)]

SendText(st, s) ==
    LET out1 == IF st.bolded # st.boldRequested
                THEN Append(st.out, Cmd(IF st.boldRequested THEN SET_BOLD ELSE SET_NORMAL))
                ELSE st.out
    IN  [st EXCEPT !.bolded = st.boldRequested,
                   !.out = IF s = <<>> THEN out1 ELSE Append(out1, s)]

\* "if line > startVisible: sendText(...)"
SendVisibleBug(visible, st, s) == SendText(st, s)

SendVisible(visible, st, s) == IF visible THEN SendText(st, s) ELSE st

\* the inner loop of _displayText, lines 343-396, over the rest t of a line
RECURSIVE LinkLoop(_, _, _)
LinkLoop(t, visible, st) ==
    LET openLinkPos  == Find(t, "[")
        closeLinkPos == Find(t, "]")
        before       == Take(t, openLinkPos)
        afterOpen    == Drop(t, openLinkPos + 1)
        inner        == Take(afterOpen, Find(afterOpen, "]"))
        afterInner   == Drop(afterOpen, Find(afterOpen, "]") + 1)
        after        == Take(t, closeLinkPos)
        afterClose   == Drop(t, closeLinkPos + 1)
        opened       == SendVisible(visible,
                            [SendVisible(visible, st, before)
                                EXCEPT !.linkDepth = @ + 1,
                                       !.boldRequested = IF st.linkDepth + 1 = 1 THEN TRUE ELSE @],
                            <<"[">>)
        closed       == [SendVisible(visible, SendVisible(visible, st, after), <<"]">>)
                            EXCEPT !.boldRequested = IF st.linkDepth = 1 THEN FALSE ELSE @,
                                   !.linkDepth = @ - 1]
        whole1       == SendVisible(visible,
                            [SendVisible(visible, st, before)
                                EXCEPT !.boldRequested = IF st.linkDepth = 0 THEN TRUE ELSE @],
                            <<"[">>)
        whole        == [SendVisible(visible, SendVisible(visible, whole1, inner), <<"]">>)
                            EXCEPT !.boldRequested = IF st.linkDepth = 0 THEN FALSE ELSE @]
    IN  IF t = <<>> THEN st
        ELSE IF openLinkPos < 0 /\ closeLinkPos < 0
        THEN LinkLoop(<<>>, visible, SendVisible(visible, st, t))
        ELSE IF openLinkPos >= 0 /\ closeLinkPos < 0
        THEN LinkLoop(afterOpen, visible, opened)
        ELSE IF (openLinkPos < 0 /\ closeLinkPos >= 0) \/ closeLinkPos < openLinkPos
        THEN LinkLoop(afterClose, visible, closed)
        ELSE LinkLoop(afterInner, visible, whole)

\* one round of the outer loop of _displayText, lines 337-406, for the line
\* numbered n from 1; p holds what the call does not change
PaintLine(p, n, st) ==
    LET t          == p.text[n]
        visible    == n > p.startVisible
        needsClear == p.wipeNonText /\ Len(t) < p.columns
        cleared    == IF visible /\ needsClear
                      THEN <<Cmd(CLEAR_TO_END_OF_LINE)>> ELSE <<>>
        ended      == IF visible /\ n # p.endVisible THEN << <<NL>> >> ELSE <<>>
    IN  [LinkLoop(t, visible, st) EXCEPT
            !.out = @ \o cleared \o ended,
            !.displayed = IF visible THEN @ + 1 ELSE @]

\* the outer loop of _displayText, line 336, from the line numbered n; the
\* state after a round is bound to s before the next round starts
RECURSIVE PaintLines(_, _, _)
PaintLines(p, n, st) ==
    IF n > p.lastLine THEN st
    ELSE CHOOSE r \in { PaintLines(p, n + 1, s) : s \in {PaintLine(p, n, st)} } : TRUE

\* lines 408-416
RECURSIVE WipeRest(_, _)
WipeRest(p, st) ==
    IF st.displayed >= p.endVisible - p.startVisible THEN st
    ELSE WipeRest(p, [st EXCEPT
             !.out = Append(st.out, Cmd(CLEAR_LINE))
                       \o (IF st.displayed < ViewRows - 1 THEN << <<NL>> >> ELSE <<>>),
             !.displayed = @ + 1])

\* TextRendererCore._displayText, lines 310-416, with self.text = txt and
\* self.line = off: what it sends
DisplayTextRange(txt, off, startVisible, endVisible, wipeNonText, cols) ==
    LET p == [text |-> txt, startVisible |-> startVisible, endVisible |-> endVisible,
              wipeNonText |-> wipeNonText, columns |-> cols,
              lastLine |-> Min(Min(ViewRows + off, Len(txt)), endVisible)]
        Wiped(painted) == IF wipeNonText THEN WipeRest(p, painted) ELSE painted
    IN  Wiped(PaintLines(p, 1, PaintStart)).out

\* TextRendererCore.displayText, lines 205-220
DisplayTextResultBug(src, cols) ==
    LET lines == IF src = <<>> THEN <<>> ELSE SplitLines(WordWrap(src, cols))
    IN  [text |-> lines, line |-> 0,
         sent |-> <<MoveCursor(ViewTop, 1)>> \o SetScrollRegion(ViewTop, ViewBottom)
                    \o DisplayTextRange(lines, 0, 0, ViewRows, FALSE, cols)
                    \o ClearScrollRegion]

DisplayTextResult(src, cols) ==
    LET lines == SplitLines(WordWrap(src, cols))
    IN  [text |-> lines, line |-> 0,
         sent |-> <<MoveCursor(ViewTop, 1)>> \o SetScrollRegion(ViewTop, ViewBottom)
                    \o DisplayTextRange(lines, 0, 0, ViewRows, FALSE, cols)
                    \o ClearScrollRegion]

Unmoved == [line |-> line, sent |-> <<>>]

\* the record of an operation and of what it sent
Sent(name, items) == sent' = items /\ op' = name /\ lineBefore' = line

\* TextRendererCore.scrollUp, lines 222-233
ScrollUpResultBug ==
    IF line > 0
    THEN [line |-> line - 1,
          sent |-> <<Cmd(SAVE_CURSOR), Cmd(SET_NORMAL), MoveCursor(ViewTop, 1)>>
                     \o SetScrollRegion(ViewTop, ViewBottom)
                     \o <<Cmd(MOVE_CURSOR_UP)>>
                     \o DisplayTextRange(text, line - 1, line - 1, line, FALSE, columns)
                     \o ClearScrollRegion]
    ELSE Unmoved

ScrollUpResult ==
    IF line > 0
    THEN [line |-> line - 1,
          sent |-> <<Cmd(SAVE_CURSOR), Cmd(SET_NORMAL), MoveCursor(ViewTop, 1)>>
                     \o SetScrollRegion(ViewTop, ViewBottom)
                     \o <<Cmd(MOVE_CURSOR_UP)>>
                     \o DisplayTextRange(text, line - 1, line - 1, line, FALSE, columns)
                     \o ClearScrollRegion \o <<Cmd(RESTORE_CURSOR)>>]
    ELSE Unmoved

\* TextRendererCore.scrollDown, lines 235-246
ScrollDownResultBug ==
    IF line < Len(text)
    THEN [line |-> line + 1, sent |-> <<>>]
    ELSE Unmoved

ScrollDownResult ==
    IF line < Len(text) - ViewRows
    THEN [line |-> line + 1,
          sent |-> <<Cmd(SAVE_CURSOR), Cmd(SET_NORMAL)>>
                     \o SetScrollRegion(ViewTop, ViewBottom)
                     \o <<MoveCursor(ViewBottom, 1), Cmd(MOVE_CURSOR_DOWN)>>
                     \o DisplayTextRange(text, line + 1, line + ViewRows, line + 1 + ViewRows,
                                         FALSE, columns)
                     \o ClearScrollRegion \o <<Cmd(RESTORE_CURSOR)>>]
    ELSE Unmoved

\* "Gotta redraw the whole thing", lines 254-263, 271-280, 285-294, 299-308
Redraw(to) ==
    IF to # line
    THEN [line |-> to,
          sent |-> <<Cmd(SAVE_CURSOR), Cmd(SET_NORMAL), MoveCursor(ViewTop, 1)>>
                     \o SetScrollRegion(ViewTop, ViewBottom)
                     \o DisplayTextRange(text, to, to, to + ViewRows, TRUE, columns)
                     \o ClearScrollRegion \o <<Cmd(RESTORE_CURSOR)>>]
    ELSE Unmoved

\* TextRendererCore.pageUp, lines 248-263
PageUpResult ==
    Redraw(IF line - (ViewRows - 1) < 0 THEN 0 ELSE line - (ViewRows - 1))

\* TextRendererCore.pageDown, lines 265-280
PageDownResult ==
    Redraw(IF line + (ViewRows - 1) > Len(text) - ViewRows
           THEN Len(text) - ViewRows
           ELSE line + (ViewRows - 1))

\* TextRendererCore.goToTop, lines 282-294
GoToTopResult == Redraw(0)

\* TextRendererCore.goToBottom, lines 296-308
GoToBottomResult == Redraw(Len(text) - ViewRows)

(***************************************************************************)
(* ndb.py: the command line.  The buffer Renderer.input and a command are  *)
(* sequences of characters.                                                *)
(***************************************************************************)
CLEAR_TO_ORIGIN    == <<"[", "1", "J">>
CLEAR_SCREEN       == <<"[", "2", "J">>
MOVE_CURSOR_ORIGIN == <<"[", "H">>
SET_132_COLUMNS    == <<"[", "?", "3", "h">>
SET_80_COLUMNS     == <<"[", "?", "3", "l">>
TURN_ON_AUTOWRAP   == <<"[", "?", "7", "h">>
TURN_OFF_AUTOWRAP  == <<"[", "?", "7", "l">>
SET_REVERSE        == <<"[", "7", "m">>

\* str.strip() of a buffer, whose only white space is the space
RECURSIVE Strip(_)
Strip(s) ==
    IF s = <<>> THEN s
    ELSE IF s[1] = SP THEN Strip(Tail(s))
    ELSE IF s[Len(s)] = SP THEN Strip(SubSeq(s, 1, Len(s) - 1))
    ELSE s

\* str.lower()
Lower(s) ==
    LET upper == <<"A", "B", "C", "D", "E", "F", "G", "H", "I", "J", "K", "L", "M", "N", "O", "P", "Q", "R", "S", "T", "U", "V", "W", "X", "Y", "Z">>
        lower == <<"a", "b", "c", "d", "e", "f", "g", "h", "i", "j", "k", "l", "m", "n", "o", "p", "q", "r", "s", "t", "u", "v", "w", "x", "y", "z">>
    IN  [i \in 1..Len(s) |->
            IF \E k \in 1..Len(upper) : upper[k] = s[i]
            THEN lower[CHOOSE k \in 1..Len(upper) : upper[k] = s[i]]
            ELSE s[i]]

\* the characters of s as one string
RECURSIVE Str(_)
Str(s) == IF s = <<>> THEN "" ELSE s[1] \o Str(Tail(s))

\* the tokens of the characters s
RECURSIVE Tokens(_)
Tokens(s) ==
    LET delims == {":", ".", "/"}
        stops  == {i \in 1..Len(s) : s[i] \in delims}
        run    == IF stops = {} THEN Len(s)
                  ELSE (CHOOSE i \in stops : \A j \in stops : i <= j) - 1
    IN  IF s = <<>> THEN <<>>
        ELSE IF s[1] \in delims THEN <<s[1]>> \o Tokens(Tail(s))
        ELSE <<Str(Take(s, run))>> \o Tokens(Drop(s, run))

\* int(s) of lines 1262, 492, 936 and 983: blanks around the number and a
\* sign before it are accepted; ok is FALSE where int() raises ValueError
ParseInt(s) ==
    LET t      == Strip(s)
        signed == t # <<>> /\ t[1] \in {"+", "-"}
        digits == IF signed THEN Tail(t) ELSE t
    IN  [ok  |-> IsInt(digits),
         val |-> IF ~IsInt(digits) THEN 0
                 ELSE IF signed /\ t[1] = "-" THEN 0 - DigitsToInt(digits)
                 ELSE DigitsToInt(digits)]

\* actual == "word" or actual.startswith("word ")
IsCommand(actual, word) ==
    actual = word \/ Take(actual, Len(word) + 1) = word \o <<SP>>

\* " " in actual
HasArgument(actual) == Find(actual, SP) >= 0

\* actual.split(" ", 1)[1].strip()
Argument(actual) == Strip(Drop(actual, Find(actual, SP) + 1))

\* os.path.normpath of an absolute path, as tokens: empty segments and "."
\* are dropped, ".." drops the segment before it, and exactly two leading
\* slashes are kept
RECURSIVE NormSegments(_, _)
NormSegments(toks, done) ==
    LET slash == Find(toks, "/")
        seg   == IF slash < 0 THEN toks ELSE Take(toks, slash)
        rest  == IF slash < 0 THEN <<>> ELSE Drop(toks, slash + 1)
        next  == IF seg = <<>> \/ seg = <<".">> THEN done
                 ELSE IF seg = <<".", ".">> THEN Take(done, Len(done) - 1)
                 ELSE Append(done, seg)
    IN  IF toks = <<>> THEN done ELSE NormSegments(rest, next)

RECURSIVE JoinSegments(_)
JoinSegments(segs) ==
    IF segs = <<>> THEN <<>> ELSE <<"/">> \o Head(segs) \o JoinSegments(Tail(segs))

\* the directory the program was started in
Cwd == <<"/", "srv">>

\* os.path.abspath(os.path.join(path, newdir)), lines 1337-1339
CdPath(path, newdir) ==
    LET joined == IF newdir # <<>> /\ newdir[1] = "/" THEN newdir
                  ELSE IF path = <<>> THEN newdir
                  ELSE IF path[Len(path)] = "/" THEN path \o newdir
                  ELSE path \o <<"/">> \o newdir
        abs    == IF joined # <<>> /\ joined[1] = "/" THEN joined
                  ELSE Cwd \o <<"/">> \o joined
        twice  == Len(abs) >= 2 /\ abs[2] = "/" /\ ~(Len(abs) >= 3 /\ abs[3] = "/")
        body   == JoinSegments(NormSegments(abs, <<>>))
    IN  IF body = <<>> THEN (IF twice THEN <<"/", "/">> ELSE <<"/">>)
        ELSE IF twice THEN <<"/">> \o body ELSE body

(***************************************************************************)
(* ndb.py: Renderer and the renderers of the page types.  The words of the *)
(* texts the program composes (the help, a search result, a dictionary     *)
(* entry, a calendar) are not modelled: such a text is Lines(n), n being   *)
(* the number of its lines.                                                *)
(***************************************************************************)
Lines(n) == Numbered(n)

\* a line of two words that is len characters long: it takes two rows of a
\* terminal with fewer than len columns
LongLine(len) == [i \in 1..len |-> IF i = 80 THEN SP ELSE "x"]

\* a text of n lines: first `over` lines too long for 132 columns, then
\* `wide` lines too long for 80 columns only, then short lines
RECURSIVE LongLines(_, _, _)
LongLines(over, wide, n) ==
    IF over > 0 THEN LongLine(140) \o <<NL>> \o LongLines(over - 1, wide, n - 1)
    ELSE IF wide > 0 THEN LongLine(85) \o <<NL>> \o LongLines(0, wide - 1, n - 1)
    ELSE Lines(n)

\* a text that begins with the instructions of lines 520-526, whose third
\* line is 90 characters long
Instructed(n) == LongLines(0, 1, n)

\* "\n".join(data.split("css")), lines 1049 and 442
RECURSIVE SplitCss(_)
SplitCss(s) ==
    IF s = <<>> THEN <<>>
    ELSE IF Take(s, 3) = <<"c", "s", "s">> THEN <<NL>> \o SplitCss(Drop(s, 3))
    ELSE <<s[1]>> \o SplitCss(Tail(s))

\* the text after the first line of s
AfterLine(s) == Drop(s, Find(s, NL) + 1)

\* SearchRendererCore.displayedHelp, lines 437-442
DisplayedHelp(data) == SplitCss(AfterLine(AfterLine(data)))

\* len(s.split("\n"))
CountLines(s) == Cardinality({i \in 1..Len(s) : s[i] = NL}) + 1

\* the lines of the help of lines 1055-1123: a heading, thirteen commands of
\* two lines, a third line under "set", and a blank line between sections;
\* the description of "goto" is 147 characters long, those of "cd" and
\* "back" are 108 and 92
HelpLines == 1 + (13 * 2) + 1 + 13

HelpText == LongLines(1, 2, HelpLines)

\* lines 520-526 and 720-725
DictionaryInstructions == 5
CalendarInstructions   == 4

\* page.domain.root, er being the root of Wiki.nonexistant
PageRoot(pg, er) ==
    IF pg.kind = "domain" THEN Domains[pg.idx].root
    ELSE IF pg.kind = "help" THEN Help.root
    ELSE er

\* the class displayPage picks for the page, lines 1045-1152: "keep" where
\* it leaves Renderer.renderer alone, "bad" where it raises
CoreKind(pg) ==
    IF pg.extension \in {<<>>, <<"TEXT">>, <<"DOUB">>} THEN "text"
    ELSE IF pg.extension = <<"INT">>
    THEN IF pg.data.text \in {<<"h", "e", "l", "p">>, <<"c", "o", "n", "n", "e", "r", "r">>}
         THEN "text" ELSE "keep"
    ELSE IF pg.extension = <<"SRCH">> THEN "search"
    ELSE IF pg.extension = <<"DICT">> THEN "dict"
    ELSE IF pg.extension \in {<<"CLND">>, <<"CLDR">>} THEN "cal"
    ELSE "bad"

\* CalendarRendererCore.eventLines, lines 871-894: the events of the day
\* selected, none while no day is selected
DayEvents(data, day, month, year) ==
    SelectSeq(data.events, LAMBDA e : e.date = <<day, month, year>>)

\* the lines of displayToday's text, lines 896-917
CalendarLines(data, day, month, year) ==
    LET events == DayEvents(data, day, month, year)
    IN  CalendarInstructions + 1 + 1 + 1 + 8 + 1 + 1
          + (IF events = <<>> THEN 2 ELSE 2 * Len(events))

\* the text displayPage hands to displayText, lines 1045-1150
Source(pg) ==
    CASE CoreKind(pg) = "search" -> DisplayedHelp(pg.data.text)
      [] CoreKind(pg) = "dict" -> Instructed(DictionaryInstructions + 4)
      [] CoreKind(pg) = "cal" ->
           Lines(CalendarLines(pg.data, -1, pg.data.startMonth, pg.data.startYear))
      [] pg.extension = <<"INT">> ->
           IF pg.data.text = <<"h", "e", "l", "p">> THEN HelpText ELSE Lines(2)
      [] OTHER ->
           IF pg.data.text \in {<<"V", "o", "i", "d">>, <<"v", "o", "i", "d">>, <<"[", "U", "n", "w", "r", "i", "t", "t", "e", "n", "]">>}
           THEN <<NL>> \o <<"[", "U", "n", "w", "r", "i", "t", "t", "e", "n", "]">>
           ELSE SplitCss(pg.data.text)

\* the renderer displayPage makes, lines 1051, 1137, 1142, 1147, 780-782
NewCore(pg) ==
    [NoCore EXCEPT !.kind = CoreKind(pg),
                   !.month = pg.data.startMonth, !.year = pg.data.startYear]

\* every page of the wiki
AllPages ==
    UNION { { PageOf("domain", i, Domains[i].pages[j]) : j \in 1..Len(Domains[i].pages) } :
            i \in 1..Len(Domains) }
      \cup { PageOf("help", 0, Help.pages[1]), PageOf("nonexistant", 0, Nonexistant.pages[1]) }

\* the widths of the terminal, terminal.py lines 56, 67 and 72
Widths == {80, 132}

\* the texts a command composes have at most this many lines
MostLines == NumLines + 20

\* displayText of every text the program displays, at both widths
Shown ==
    [t \in {Source(pg) : pg \in AllPages}, c \in Widths |-> DisplayTextResult(t, c)]

\* displayText(text, forceRefresh=True) between SAVE_CURSOR, SET_NORMAL and
\* RESTORE_CURSOR, as in lines 451-467, 549-571 and 919-925
RefreshResult(src, cols) ==
    LET lines == SplitLines(WordWrap(src, cols))
    IN  [text |-> lines, line |-> 0,
         sent |-> <<Cmd(SAVE_CURSOR), Cmd(SET_NORMAL), MoveCursor(ViewTop, 1)>>
                    \o SetScrollRegion(ViewTop, ViewBottom)
                    \o DisplayTextRange(lines, 0, 0, ViewRows, TRUE, cols)
                    \o ClearScrollRegion \o <<Cmd(RESTORE_CURSOR)>>]

Refreshed ==
    [t \in {Lines(n) : n \in 0..MostLines}
            \cup {Instructed(n) : n \in DictionaryInstructions..MostLines},
     c \in Widths |-> RefreshResult(t, c)]

\* Page.data of the home page as displayPage hands it to displayText
PageSource == Source(GetPage(HomeUri).page)

\* TextRendererCore.__init__, lines 106-110
NoText == text = <<>> /\ sent = <<>> /\ op = "" /\ lineBefore = 0

\* the renderer after displayPage of the home page
PageShown ==
    /\ text = DisplayTextResult(PageSource, TerminalColumns).text
    /\ sent = DisplayTextResult(PageSource, TerminalColumns).sent
    /\ op = "displayText" /\ lineBefore = 0

\* wordWrap has not been called on its own
NoWrap ==
    /\ source = <<>> /\ wrapped = <<>> /\ rewrapped = <<>>
    /\ restText = <<>> /\ joinedText = <<>> /\ currentLine = <<>>

\* Terminal.peekInput: the head of the keystroke queue, not dequeued
PeekInput == IF pending # <<>> THEN Head(pending) ELSE None

\* main, line 1383
IsHeldKeyBug(v) == Chars(v) \in {UP}

IsHeldKey(v) == Chars(v) \in {UP, DOWN}

\* main, line 1384
SameInputBug(a, b) == a # None /\ b # None

SameInput(a, b) == a # None /\ b # None /\ Chars(a) = Chars(b)

\* main, line 1382
MainPoll ==
    /\ pc = "poll"
    /\ RecvInput
    /\ UNCHANGED <<typed, fates, mainVars, navVars, layVars, cmdVars>>

\* main, lines 1382-1387: recvInput has returned
MainGotInput ==
    /\ pc = "ret"
    /\ call = "input"
    /\ inputVal' = ret
    /\ queueAtDeq' = IF ret = None THEN <<>> ELSE <<ret>> \o pending
    /\ fates' = IF ret = None THEN fates ELSE Append(fates, "d")
    /\ pc' = IF ret = None THEN "poll"
             ELSE IF IsHeldKey(ret) THEN "dedup" ELSE "dispatch"
    /\ UNCHANGED <<termVars, call, ret, pos, crash, entryLeftover, queries>>
    /\ UNCHANGED <<typed, delivered, dispatched, scrolls, input, line, navVars, layVars, cmdVars>>

\* main, lines 1384-1385: one pass of the de-duplication loop
MainDedup ==
    /\ pc = "dedup"
    /\ IF SameInput(inputVal, PeekInput)
       THEN /\ pending' = Tail(pending)
            /\ ret' = Head(pending)
            /\ delivered' = Append(delivered, Head(pending))
            /\ fates' = Append(fates, "x")
            /\ entryLeftover' = <<>>
            /\ UNCHANGED pc
       ELSE /\ pc' = "dispatch"
            /\ UNCHANGED <<pending, ret, pos, delivered, fates, entryLeftover>>
    /\ UNCHANGED <<wire, owed, cursor, leftover, accum, gotResponse, waited>>
    /\ UNCHANGED <<call, pos, crash, queries, typed, mainVars, navVars, layVars, cmdVars>>

\* TextRendererCore.scrollUp / scrollDown, lines 222-246: the new offset
ScrollUpLine == ScrollUpResult.line

ScrollDownLine == ScrollDownResult.line

\* main, line 1388, and Renderer.processInput, lines 1185-1207 and 1346:
\* the key is handed to processInput, which scrolls or asks for the cursor
MainDispatch ==
    /\ pc = "dispatch"
    /\ dispatched' = Append(dispatched, inputVal)
    /\ CASE Chars(inputVal) = UP ->
              /\ scrolls' = Append(scrolls, "up")
              /\ line' = ScrollUpLine
              /\ Sent("scrollUp", ScrollUpResult.sent)
              /\ pc' = "poll"
              /\ UNCHANGED <<owed, call, accum, gotResponse, waited>>
         [] Chars(inputVal) = DOWN ->
              /\ scrolls' = Append(scrolls, "down")
              /\ line' = ScrollDownLine
              /\ Sent("scrollDown", ScrollDownResult.sent)
              /\ pc' = "poll"
              /\ UNCHANGED <<owed, call, accum, gotResponse, waited>>
         [] Chars(inputVal) \in {BACKSPACE, DELETE} /\ input = <<>> ->
              /\ pc' = "poll"
              /\ UNCHANGED <<owed, call, accum, gotResponse, waited, scrolls, line, outVars>>
         [] OTHER ->
              /\ owed' = "cursor"
              /\ StartFrame("cursor")
              /\ UNCHANGED <<scrolls, line, outVars>>
    /\ UNCHANGED <<wire, cursor, leftover, pending, ret, pos, crash, entryLeftover, queries>>
    /\ UNCHANGED <<histVars, inputVal, queueAtDeq, input, navVars>>
    /\ UNCHANGED <<text, wrapVars, cmdVars>>

\* Renderer.processInput after fetchCursor returned <<row, col>>:
\* lines 1192-1194, 1197-1199, 1209-1244 and 1349-1363.
\* The value is <<new input, new cursor of the terminal>>.  The terminal,
\* its auto-wrap turned off (line 1042), keeps its cursor at the last column
\* when text is written there or when it is moved beyond it.
EditResultBug(key, buf, row, col) ==
    CASE key = LEFT -> <<buf, <<row, col - 1>>>>
      [] key = RIGHT -> <<buf, <<row, col + 1>>>>
      [] key \in {BACKSPACE, DELETE} -> <<Take(buf, Len(buf) - 1), <<row, col - 1>>>>
      [] OTHER -> <<buf \o key, <<row, col + 1>>>>

EditResult(key, buf, row, col) ==
    CASE key = LEFT ->
           IF col > 1 THEN <<buf, <<row, col - 1>>>> ELSE <<buf, cursor>>
      [] key = RIGHT ->
           IF col < Len(buf) + 1 THEN <<buf, <<row, Min(col + 1, columns)>>>> ELSE <<buf, cursor>>
      [] key \in {BACKSPACE, DELETE} ->
           IF col = Len(buf) + 1 THEN <<Take(buf, Len(buf) - 1), <<row, col - 1>>>>
           ELSE IF col = 1 THEN <<buf, cursor>>
           ELSE IF col = 2 THEN <<Drop(buf, 1), <<row, col - 1>>>>
           ELSE <<Take(buf, col - 2) \o Drop(buf, col - 1), <<row, col - 1>>>>
      [] OTHER ->
           IF col = Len(buf) + 1
           THEN <<buf \o key, <<cursor[1], Min(cursor[2] + 1, columns)>>>>
           ELSE <<Take(buf, col - 1) \o key \o Drop(buf, col - 1),
                  <<row, Min(col + 1, columns)>>>>

MainAfterCursor ==
    /\ pc = "ret"
    /\ call = "cursor"
    /\ \E e \in {EditResult(Chars(inputVal), input, pos[1], pos[2])} :
           /\ input' = e[1]
           /\ cursor' = e[2]
    /\ pc' = "poll"
    /\ UNCHANGED <<wire, owed, leftover, pending, accum, gotResponse, waited>>
    /\ UNCHANGED <<call, ret, pos, crash, entryLeftover, queries>>
    /\ UNCHANGED <<histVars, inputVal, queueAtDeq, dispatched, scrolls, line, navVars, layVars, cmdVars>>

MainKeys == Keys

Init ==
    /\ InitCommon
    /\ NavStarted
    /\ PageShown
    /\ core = NewCore(GetPage(HomeUri).page)
    /\ NoWrap
    /\ pc = "poll"
    /\ cursor = <<TerminalRows, 1>>

MainStep ==
    \/ MainPoll
    \/ MainGotInput
    \/ MainDedup
    \/ MainDispatch
    \/ MainAfterCursor
    \/ ReadByte
    \/ ReadGap

Next ==
    \/ \E k \in MainKeys : Len(typed) < MaxKeys /\ TypeKey(k)
    \/ TerminalAnswer
    \/ TerminalBadAnswer
    \/ MainStep

Spec == Init /\ [][Next]_vars

\* the program runs on: its next step is taken whenever it has one
LiveSpec == Init /\ [][Next]_vars /\ WF_vars(MainStep)

\* the fields of the Renderer, of its renderer and of the terminal that
\* handling an input changes, with what the handling has written so far
Rend ==
    [input |-> input, cursor |-> cursor, lastError |-> lastError,
     text |-> text, line |-> line, core |-> core, source |-> source,
     op |-> op, sent |-> sent, lineBefore |-> lineBefore,
     wrote |-> <<>>, crash |-> crash]

Render(st) ==
    /\ input' = st.input /\ cursor' = st.cursor /\ lastError' = st.lastError
    /\ text' = st.text /\ line' = st.line /\ core' = st.core /\ source' = st.source
    /\ op' = st.op /\ sent' = st.sent /\ lineBefore' = st.lineBefore
    /\ wrote' = st.wrote

\* the banner of an error message, none for the empty message
Banner(message) == IF message = "" THEN <<>> ELSE <<message>>

\* Renderer.displayError, lines 1171-1183
DisplayErrorBug(st, error) ==
    [st EXCEPT !.input = <<>>, !.lastError = error]

DisplayError(st, error) ==
    IF error = st.lastError THEN st
    ELSE [st EXCEPT
            !.lastError = error,
            !.wrote = @ \o <<Cmd(SAVE_CURSOR), MoveCursor(TerminalRows - 1, 1),
                             Cmd(CLEAR_LINE), Cmd(SET_NORMAL), Cmd(SET_BOLD)>>
                        \o (IF error = <<>> THEN <<>> ELSE <<error>>)
                        \o <<Cmd(SET_NORMAL), Cmd(RESTORE_CURSOR)>>]

\* " " * self.terminal.columns
Spaces(n) == [i \in 1..n |-> SP]

\* Renderer.clearInput, lines 1157-1169
ClearInputBug(st, cols) == DisplayError(st, <<>>)

ClearInput(st, cols) ==
    LET e == DisplayError(st, <<>>)
    IN  [e EXCEPT
           !.input = <<>>,
           !.cursor = <<TerminalRows, 1>>,
           !.wrote = @ \o <<MoveCursor(TerminalRows, 1), Cmd(SAVE_CURSOR), Cmd(SET_NORMAL),
                            Cmd(SET_REVERSE), Spaces(cols), Cmd(RESTORE_CURSOR)>>]

\* the title of a page, lines 1036-1040
Title(pg, root) ==
    <<root \o <<":">> \o pg.path>>
      \o (IF pg.extension # <<>> /\ pg.extension # <<"INT">>
          THEN << <<".">> \o pg.extension >> ELSE <<>>)
      \o (IF pg.name # <<>> THEN << <<" -- ">> \o pg.name >> ELSE <<>>)

\* Renderer.displayPage, lines 1019-1155, of the page pg of the domain root
\* on a terminal of cols columns
DisplayPage(st, pg, root, cols) ==
    LET c       == ClearInput(st, cols)
        prelude == <<MoveCursor(TerminalRows - 2, 1), Cmd(CLEAR_LINE), Cmd(CLEAR_TO_ORIGIN),
                     Cmd(MOVE_CURSOR_ORIGIN), Cmd(TURN_ON_AUTOWRAP),
                     Cmd(SET_NORMAL), Cmd(SET_BOLD)>>
                     \o Title(pg, root)
                     \o <<Cmd(SET_NORMAL), Cmd(TURN_OFF_AUTOWRAP)>>
        Drawn(src, d) ==
            [c EXCEPT
                !.text = d.text, !.line = d.line, !.core = NewCore(pg),
                !.source = src,
                !.op = "displayText", !.sent = d.sent, !.lineBefore = st.line,
                !.wrote = @ \o prelude \o d.sent \o <<MoveCursor(TerminalRows, 1)>>]
        Shows(src) == Drawn(src, Shown[src, cols])
    IN  IF CoreKind(pg) = "bad"
        THEN [c EXCEPT !.wrote = @ \o prelude, !.crash = "NotImplementedError"]
        ELSE IF CoreKind(pg) = "keep"
        THEN [c EXCEPT !.wrote = @ \o prelude \o <<MoveCursor(TerminalRows, 1)>>]
        ELSE Shows(Source(pg))

(***************************************************************************)
(* ndb.py: a submitted command, lines 1248-1343.  The page's own grammar   *)
(* is asked first (processInput of the renderer of the page type); what it *)
(* answers is [st, action], st being the fields as it leaves them and      *)
(* action what it returns: type "None" where it returns None, "Null" for   *)
(* NullAction.                                                             *)
(***************************************************************************)
Returned(st, a) == [st |-> st, action |-> a]

\* a renderer's displayText(..., forceRefresh=True) of a text it composed
InPage(st, src, cols) ==
    LET Drawn(d) ==
            [st EXCEPT !.text = d.text, !.line = d.line, !.source = src,
                       !.op = "displayText", !.sent = d.sent, !.lineBefore = st.line,
                       !.wrote = @ \o d.sent]
    IN  Drawn(Refreshed[src, cols])

\* needle in hay
Contains(hay, needle) ==
    \E i \in 0..(Len(hay) - Len(needle)) : SubSeq(hay, i + 1, i + Len(needle)) = needle

\* lines 478-483: the pages of the search page's domain that hold the term,
\* as the identifiers line 500 makes of them
SearchResults(pg, term) ==
    LET dom   == Domains[pg.idx]
        found == SelectSeq(dom.pages,
                           LAMBDA p : p.path # dom.error /\ Contains(Lower(p.data.text), term))
    IN  [i \in 1..Len(found) |-> dom.root \o <<":">> \o found[i].path]

\* the number in "#N" or "!N" less one, lines 262-263, 492-493 and 994-995
Choice(actual) == ParseInt(Tail(actual)).val - 1

\* SearchRendererCore.processInput, lines 470-507
SearchInput(st, actual, pg, cols) ==
    IF IsCommand(actual, <<"s", "e", "a", "r", "c", "h">>)
    THEN IF ~HasArgument(actual)
         THEN Returned(DisplayError(st, <<"No search term specified!">>), ActionOf("Null"))
         ELSE LET results == SearchResults(pg, Lower(Argument(actual)))
                  n       == CountLines(DisplayedHelp(pg.data.text)) + 4 + (2 * Len(results))
                  shown   == InPage(ClearInput(st, cols), Lines(n), cols)
              IN  Returned([shown EXCEPT !.core.results = results], ActionOf("Null"))
    ELSE IF actual[1] = "#"
    THEN IF ~ParseInt(Tail(actual)).ok
         THEN Returned(DisplayError(st, <<"Invalid result navigation request!">>), ActionOf("Null"))
         ELSE IF Choice(actual) < 0 \/ Choice(actual) >= Len(st.core.results)
         THEN Returned(DisplayError(st, <<"Unknown result navigation request!">>), ActionOf("Null"))
         ELSE Returned(st, NavigateAction(st.core.results[Choice(actual) + 1]))
    ELSE Returned(st, NoAction)

\* the lines of the texts of lines 548-658: an entry of the model's
\* dictionary has no examples and no roots of its own
RootLines    == DictionaryInstructions + 10
RootsLines(data) == DictionaryInstructions + 1 + Len(data.roots)
WordLines    == DictionaryInstructions + 14
WordsLines(data) == DictionaryInstructions + 1 + (2 * Len(data.words))
FailureLines == DictionaryInstructions + 3

\* lines 674-680 and 696-702: one of the names is the name asked for
Listed(names, name) == \E i \in 1..Len(names) : Lower(names[i]) = name

\* DictionaryRendererCore.processInput, lines 660-707
DictionaryInput(st, actual, pg, cols) ==
    IF actual = <<"r", "o", "o", "t", "s">>
    THEN Returned(InPage(ClearInput(st, cols), Instructed(RootsLines(pg.data)), cols), ActionOf("Null"))
    ELSE IF IsCommand(actual, <<"r", "o", "o", "t">>)
    THEN IF ~HasArgument(actual)
         THEN Returned(DisplayError(st, <<"No root specified!">>), ActionOf("Null"))
         ELSE IF Listed(pg.data.roots, Lower(Argument(actual)))
         THEN Returned(InPage(ClearInput(st, cols), Instructed(RootLines), cols), ActionOf("Null"))
         ELSE Returned(InPage(st, Instructed(FailureLines), cols), ActionOf("Null"))
    ELSE IF actual = <<"w", "o", "r", "d", "s">>
    THEN Returned(InPage(ClearInput(st, cols), Instructed(WordsLines(pg.data)), cols), ActionOf("Null"))
    ELSE IF IsCommand(actual, <<"w", "o", "r", "d">>)
    THEN IF ~HasArgument(actual)
         THEN Returned(DisplayError(st, <<"No word specified!">>), ActionOf("Null"))
         ELSE IF Listed(pg.data.words, Lower(Argument(actual)))
         THEN Returned(InPage(ClearInput(st, cols), Instructed(WordLines), cols), ActionOf("Null"))
         ELSE Returned(InPage(st, Instructed(FailureLines), cols), ActionOf("Null"))
    ELSE Returned(st, NoAction)

\* displayToday(True) after a day, a month or a year was set (lines 941-943,
\* 962-964, 983-985); eventLines, lines 880-885, replaces self.links when
\* the day has events
CalendarSet(st, pg, cols, day, month, year) ==
    LET events == IF day = -1 THEN <<>> ELSE DayEvents(pg.data, day, month, year)
        links  == IF events = <<>> THEN st.core.links
                  ELSE [i \in 1..Len(events) |-> events[i].link]
        shown  == InPage(ClearInput(st, cols), Lines(CalendarLines(pg.data, day, month, year)), cols)
    IN  Returned([shown EXCEPT !.core.day = day, !.core.month = month, !.core.year = year,
                             !.core.links = links],
               ActionOf("Null"))

\* one of the branches "day", "month" and "year", lines 928-990: the number
\* asked for, when it is one from 1 to most, or the error
CalendarNumber(st, actual, what, most) ==
    LET n == ParseInt(Lower(Argument(actual)))
    IN  IF ~HasArgument(actual) THEN [ok |-> FALSE, error |-> "No " \o what \o " specified!"]
        ELSE IF ~n.ok \/ n.val < 1 \/ n.val > most
        THEN [ok |-> FALSE, error |-> "Invalid " \o what \o " specified!"]
        ELSE [ok |-> TRUE, val |-> n.val]

\* CalendarRendererCore.processInput, lines 927-1008
CalendarInput(st, actual, pg, cols) ==
    LET Failed(n) == Returned(DisplayError(st, <<n.error>>), ActionOf("Null"))
        day   == CalendarNumber(st, actual, "day", 40)
        month == CalendarNumber(st, actual, "month", 14)
        year  == CalendarNumber(st, actual, "year", 40)
    IN  IF IsCommand(actual, <<"d", "a", "y">>)
        THEN IF day.ok
             THEN CalendarSet(st, pg, cols, day.val, st.core.month, st.core.year)
             ELSE Failed(day)
        ELSE IF IsCommand(actual, <<"m", "o", "n", "t", "h">>)
        THEN IF month.ok
             THEN CalendarSet(st, pg, cols, st.core.day, month.val, st.core.year)
             ELSE Failed(month)
        ELSE IF IsCommand(actual, <<"y", "e", "a", "r">>)
        THEN IF year.ok
             THEN CalendarSet(st, pg, cols, st.core.day, st.core.month, year.val)
             ELSE Failed(year)
        ELSE IF actual[1] = "#"
        THEN IF ~ParseInt(Tail(actual)).ok
             THEN Returned(DisplayError(st, <<"Invalid event navigation request!">>), ActionOf("Null"))
             ELSE IF Choice(actual) < 0 \/ Choice(actual) >= Len(st.core.links)
             THEN Returned(DisplayError(st, <<"Unknown event navigation request!">>), ActionOf("Null"))
             ELSE Returned(st, NavigateAction(st.core.links[Choice(actual) + 1]))
        ELSE Returned(st, NoAction)

\* self.renderer.processInput(actual), line 1255
PageInputBug(st, actual, pg, cols) == Returned(st, NoAction)

PageInput(st, actual, pg, cols) ==
    CASE st.core.kind = "search" -> SearchInput(st, actual, pg, cols)
      [] st.core.kind = "dict" -> DictionaryInput(st, actual, pg, cols)
      [] st.core.kind = "cal" -> CalendarInput(st, actual, pg, cols)
      [] OTHER -> Returned(st, NoAction)

\* lines 1267-1274 and 1286-1291: the identifier navigated to for the path
\* or link target, a sequence of tokens, on a page of the domain root
TargetBug(target, root) ==
    IF Find(target, ":") >= 0 THEN target ELSE root \o <<":">> \o target

Target(target, root) ==
    IF Find(target, ":") >= 0 \/ ~(target # <<>> /\ target[1] = "/")
    THEN target
    ELSE root \o <<":">> \o target

\* a move of the viewport by the renderer, after which st holds its outcome r
Moved(st, name, r) ==
    IF st.core.kind = "none" THEN st
    ELSE [st EXCEPT !.line = r.line, !.op = name, !.sent = r.sent,
                    !.lineBefore = st.line, !.wrote = @ \o r.sent]

\* lines 1318-1329: the SettingAction of the text after "set"
SettingOf(arg) ==
    LET eq == Find(arg, "=")
    IN  IF eq >= 0
        THEN SettingAction(Str(Strip(Take(arg, eq))), Str(Strip(Drop(arg, eq + 1))))
        ELSE SettingAction(Str(arg), "None")

\* lines 1259-1343: the universal grammar
UniversalInputBug(st, actual, pg, root, cols) ==
    Returned(ClearInput(DisplayError(st, <<"Unrecognized command " \o Str(actual)>>), cols), NoAction)

UniversalInput(st, actual, pg, root, cols) ==
    IF actual[1] = "!"
    THEN IF ~ParseInt(Tail(actual)).ok
         THEN Returned(DisplayError(st, <<"Invalid link navigation request!">>), NoAction)
         ELSE IF Choice(actual) < 0 \/ Choice(actual) >= Len(pg.links)
         THEN Returned(DisplayError(st, <<"Unknown link navigation request!">>), NoAction)
         ELSE Returned(st, NavigateAction(Target(pg.links[Choice(actual) + 1], root)))
    ELSE IF actual = <<"b", "a", "c", "k">> THEN Returned(st, ActionOf("Back"))
    ELSE IF IsCommand(actual, <<"g", "o", "t", "o">>)
    THEN IF ~HasArgument(actual)
         THEN Returned(DisplayError(st, <<"No page requested!">>), NoAction)
         ELSE Returned(st, NavigateAction(Target(Tokens(Argument(actual)), root)))
    ELSE IF actual = <<"h", "o", "m", "e">> THEN Returned(st, ActionOf("Home"))
    ELSE IF actual = <<"r", "o", "o", "t">> THEN Returned(st, NavigateAction(root))
    ELSE IF actual = <<"h", "e", "l", "p">> THEN Returned(st, ActionOf("Help"))
    ELSE IF actual = <<"r", "a", "n", "d", "o", "m">> THEN Returned(st, ActionOf("Random"))
    ELSE IF actual = <<"e", "x", "i", "t">> THEN Returned(st, ActionOf("Exit"))
    ELSE IF actual = <<"n", "e", "x", "t">>
    THEN Returned(Moved(ClearInput(st, cols), "pageDown", PageDownResult), NoAction)
    ELSE IF actual = <<"p", "r", "e", "v">>
    THEN Returned(Moved(ClearInput(st, cols), "pageUp", PageUpResult), NoAction)
    ELSE IF actual = <<"t", "o", "p">>
    THEN Returned(Moved(ClearInput(st, cols), "goToTop", GoToTopResult), NoAction)
    ELSE IF actual = <<"b", "o", "t", "t", "o", "m">>
    THEN Returned(Moved(ClearInput(st, cols), "goToBottom", GoToBottomResult), NoAction)
    ELSE IF IsCommand(actual, <<"s", "e", "t">>)
    THEN IF ~HasArgument(actual)
         THEN Returned(DisplayError(st, <<"No setting requested!">>), NoAction)
         ELSE Returned(st, SettingOf(Argument(actual)))
    ELSE IF IsCommand(actual, <<"c", "d">>)
    THEN IF ~HasArgument(actual)
         THEN Returned(DisplayError(st, <<"No directory specified!">>), NoAction)
         ELSE Returned(st, NavigateAction(root \o <<":">>
                                          \o CdPath(pg.path, Tokens(Argument(actual)))))
    ELSE Returned(DisplayError(st, <<"Unrecognized command " \o Str(actual)>>), NoAction)

\* lines 1250-1343: the command actual, not empty, on the page pg
EnterResult(st, actual, pg, root, cols) ==
    LET Asked(sub) ==
            IF sub.action.type # "None" THEN sub
            ELSE UniversalInput(st, actual, pg, root, cols)
    IN  Asked(PageInput(st, actual, pg, cols))

(***************************************************************************)
(* NavSpec: main's handling of the actions processInput returns (lines     *)
(* 1389-1430), one step per iteration of the loop.                         *)
(***************************************************************************)
\* identifiers a goto / link / cd / root command can name
NavUris ==
    { <<"NX", ".", "INDEX", ":", "/", "A">>,
      <<"NX", ".", "INDEX", ":", "/", "MAIN", ".", "TEXT">>,
      <<"NX", ".", "INDEX", ":", "/", "NOPE">>,
      <<"NX", ".", "BARE", ":", "/", "NOPE">>,
      <<"NO", ".", "SUCH">> }

SettingNames  == {"cols", "columns", "rows"}
SettingValues == {"80", "132", "90"}

\* int(action.value) for the two values main accepts
ColumnsOf(value) == IF value = "80" THEN 80 ELSE 132

\* what no step of main changes
MainFrame ==
    /\ UNCHANGED <<wire, owed, leftover, pending, accum, gotResponse, waited>>
    /\ UNCHANGED <<call, ret, pos, entryLeftover, queries, histVars>>
    /\ UNCHANGED <<inputVal, queueAtDeq, dispatched, scrolls, wrapped, rewrapped, loopVars>>

\* page = nav.navigate(...) or nav.back(), then renderer.displayPage(page);
\* an exception ends the program
ShowResult(r) ==
    /\ stack' = r.stack
    /\ errRoot' = r.errRoot
    /\ navLog' = r.navLog
    /\ stackBefore' = r.stackBefore
    /\ page' = r.page
    /\ IF r.ok
       THEN \E d \in {DisplayPage(Rend, r.page, r.errRoot, columns)} :
              /\ Render(d)
              /\ crash' = d.crash
              /\ pc' = IF d.crash = "" THEN "poll" ELSE "crashed"
       ELSE /\ pc' = "crashed"
            /\ crash' = r.crash
            /\ Render(Rend)
    /\ UNCHANGED <<columns, exitCode>>

\* main, lines 1371-1376; okay tells whether Terminal.__init__'s checkOk
\* (terminal.py line 48) found the terminal in order
MainStart ==
    /\ pc = "start"
    /\ \E okay \in BOOLEAN :
         LET r == NavigateResult(HomeUri)
         IN  IF okay \/ ~r.ok
             THEN ShowResult(r)
             ELSE ShowResult([r EXCEPT !.ok = FALSE,
                                       !.crash = "Terminal is not okay!"])
    /\ MainFrame

\* lines 1389-1391
MainNavigate(uri) ==
    /\ pc = "poll"
    /\ ShowResult(NavigateResult(uri))
    /\ MainFrame

\* lines 1392-1394
MainHome ==
    /\ pc = "poll"
    /\ ShowResult(NavigateResult(HomeUri))
    /\ MainFrame

\* lines 1395-1401
MainBack ==
    /\ pc = "poll"
    /\ IF CanGoBack(stack)
       THEN ShowResult(BackResult)
       ELSE /\ Render(DisplayError(ClearInput(Rend, columns), <<"No previous page!">>))
            /\ UNCHANGED <<stack, page, errRoot, columns, navLog, stackBefore>>
            /\ UNCHANGED <<pc, crash, exitCode>>
    /\ MainFrame

\* Terminal.set80Columns / set132Columns, terminal.py lines 64-72, before
\* they assign self.columns
SetColumnsBug(cols) ==
    <<Cmd(IF cols = 80 THEN SET_80_COLUMNS ELSE SET_132_COLUMNS)>>

SetColumns(cols) ==
    <<Cmd(IF cols = 80 THEN SET_80_COLUMNS ELSE SET_132_COLUMNS), Cmd(REQUEST_STATUS)>>

\* lines 1402-1421; okay tells whether checkOk (terminal.py lines 59-62)
\* found the terminal in order
MainSettingBug(setting, value) ==
    /\ pc = "poll"
    /\ setting \in {"cols", "columns"} /\ value \in {"80", "132"}
    /\ \E st \in {[Rend EXCEPT !.wrote = SetColumns(ColumnsOf(value))]} :
         /\ columns' = ColumnsOf(value)
         /\ Render(DisplayPage(st, page, errRoot, ColumnsOf(value)))
         /\ UNCHANGED <<pc, crash>>
    /\ UNCHANGED <<stack, page, errRoot, navLog, stackBefore, exitCode>>
    /\ MainFrame

MainSetting(setting, value) ==
    /\ pc = "poll"
    /\ IF setting \in {"cols", "columns"} /\ value \in {"80", "132"}
       THEN IF columns # ColumnsOf(value)
            THEN \E okay \in BOOLEAN, st \in {[Rend EXCEPT !.wrote = SetColumns(ColumnsOf(value))]} :
                   IF okay
                   THEN /\ columns' = ColumnsOf(value)
                        /\ Render(DisplayPage(st, page, errRoot, ColumnsOf(value)))
                        /\ UNCHANGED <<pc, crash>>
                   ELSE /\ pc' = "crashed"
                        /\ crash' = "Terminal is not okay!"
                        /\ Render(st)
                        /\ UNCHANGED columns
            ELSE /\ Render(ClearInput(Rend, columns))
                 /\ UNCHANGED <<pc, crash, columns>>
       ELSE /\ IF setting \in {"cols", "columns"}
               THEN Render(DisplayError(Rend, <<"Unrecognized column setting " \o value>>))
               ELSE Render(DisplayError(Rend, <<"Unrecognized setting " \o setting>>))
            /\ UNCHANGED <<pc, crash, columns>>
    /\ UNCHANGED <<stack, page, errRoot, navLog, stackBefore, exitCode>>
    /\ MainFrame

\* lines 1422-1425
MainRandom ==
    /\ pc = "poll"
    /\ \E u \in RandomUris : ShowResult(NavigateResult(u))
    /\ MainFrame

\* lines 1426-1428
MainHelp ==
    /\ pc = "poll"
    /\ ShowResult(NavigateResult(HelpUri))
    /\ MainFrame

\* lines 1429-1434
MainExitBug ==
    /\ pc = "poll"
    /\ pc' = "poll"
    /\ wrote' = <<Cmd(CLEAR_SCREEN)>>
    /\ exitCode' = exitCode
    /\ UNCHANGED <<cursor, crash, navVars, mainVars, text, outVars, source, core>>
    /\ MainFrame

MainExit ==
    /\ pc = "poll"
    /\ pc' = "done"
    /\ wrote' = <<Cmd(CLEAR_SCREEN)>>
    /\ exitCode' = <<0>>
    /\ UNCHANGED <<cursor, crash, navVars, mainVars, text, outVars, source, core>>
    /\ MainFrame

\* the user types nothing
Idle == UNCHANGED <<todo, cmd, submits, action>>

NavInit ==
    /\ InitCommon
    /\ NavFresh
    /\ core = NoCore
    /\ NoText
    /\ NoWrap
    /\ pc = "start"
    /\ cursor = <<1, 1>>

NavNext ==
    \/ MainStart /\ Idle
    \/ \E uri \in NavUris : Len(navLog) < MaxNav /\ MainNavigate(uri) /\ Idle
    \/ Len(navLog) < MaxNav /\ MainHome /\ Idle
    \/ (CanGoBack(stack) => Len(navLog) < MaxNav) /\ MainBack /\ Idle
    \/ \E setting \in SettingNames, value \in SettingValues : MainSetting(setting, value) /\ Idle
    \/ Len(navLog) < MaxNav /\ MainRandom /\ Idle
    \/ Len(navLog) < MaxNav /\ MainHelp /\ Idle
    \/ MainExit /\ Idle

NavSpec == NavInit /\ [][NavNext]_vars

(***************************************************************************)
(* CmdSpec: the user types command lines; main hands each key to           *)
(* processInput (line 1388) and handles the action it returns (lines       *)
(* 1389-1430), one step per key.  The terminal answers every query.        *)
(***************************************************************************)
ENTER == <<NL>>

\* the keys that type the characters
KeysOf(chars) == [i \in 1..Len(chars) |-> <<chars[i]>>]

\* the keys of a command line
Command(chars) == Append(KeysOf(chars), ENTER)

\* the command lines the user types without a slip
Commands ==
    { Command(<<"!", "1">>),
      Command(<<"!", "2">>),
      Command(<<"!", "3">>),
      Command(<<"!", "0">>),
      Command(<<"!", "x">>),
      Command(<<"b", "a", "c", "k">>),
      Command(<<"g", "o", "t", "o", " ", "/", "A">>),
      Command(<<"g", "o", "t", "o", " ", "M", "A", "I", "N">>),
      Command(<<"g", "o", "t", "o", " ", "N", "X", ".", "T", "O", "O", "L", "S">>),
      Command(<<"g", "o", "t", "o", " ", "N", "X", ".", "T", "O", "O", "L", "S", ":", "/", "W", "O", "R", "D", "S">>),
      Command(<<"g", "o", "t", "o", " ", "N", "X", ".", "T", "O", "O", "L", "S", ":", "/", "D", "A", "T", "E", "S">>),
      Command(<<"g", "o", "t", "o">>),
      Command(<<"h", "o", "m", "e">>),
      Command(<<"r", "o", "o", "t">>),
      Command(<<"h", "e", "l", "p">>),
      Command(<<"r", "a", "n", "d", "o", "m">>),
      Command(<<"n", "e", "x", "t">>),
      Command(<<"p", "r", "e", "v">>),
      Command(<<"t", "o", "p">>),
      Command(<<"b", "o", "t", "t", "o", "m">>),
      Command(<<"s", "e", "t", " ", "c", "o", "l", "u", "m", "n", "s", "=", "1", "3", "2">>),
      Command(<<"s", "e", "t", " ", "c", "o", "l", "s", "=", "8", "0">>),
      Command(<<"s", "e", "t", " ", "c", "o", "l", "s", " ", "=", " ", "9", "0">>),
      Command(<<"s", "e", "t", " ", "c", "o", "l", "u", "m", "n", "s">>),
      Command(<<"s", "e", "t", " ", "r", "o", "w", "s", "=", "5">>),
      Command(<<"s", "e", "t">>),
      Command(<<"c", "d", " ", ".", ".">>),
      Command(<<"c", "d">>),
      Command(<<"f", "o", "o">>),
      Command(<<"s", "e", "a", "r", "c", "h">>),
      Command(<<"#", "9">>),
      Command(<<"r", "o", "o", "t", "s">>),
      Command(<<"r", "o", "o", "t", " ", "k", "a">>),
      Command(<<"r", "o", "o", "t", " ", "z", "z">>),
      Command(<<"w", "o", "r", "d", "s">>),
      Command(<<"w", "o", "r", "d", " ", "K", "A", "B">>),
      Command(<<"w", "o", "r", "d">>),
      Command(<<"d", "a", "y", " ", "4", "1">>),
      Command(<<"d", "a", "y">>),
      Command(<<"m", "o", "n", "t", "h", " ", "2">>),
      Command(<<"y", "e", "a", "r", " ", "x">>),
      Command(<<" ">>) }

\* what the user types with slips, corrections and keys typed ahead
Sessions ==
    { \* "hox", Backspace, "me": home
      KeysOf(<<"h", "o", "x">>) \o <<BACKSPACE>> \o Command(<<"m", "e">>),
      \* "ome", Left beyond the first column, "h", Right beyond the end: home
      KeysOf(<<"o", "m", "e">>) \o <<LEFT, LEFT, LEFT, LEFT>> \o KeysOf(<<"h">>)
        \o <<RIGHT, RIGHT, RIGHT, RIGHT, ENTER>>,
      \* "hxyome", the cursor between y and o, Backspace twice: home
      KeysOf(<<"h", "x", "y", "o", "m", "e">>) \o <<LEFT, LEFT, LEFT, BACKSPACE, DELETE, ENTER>>,
      \* "xhome", the cursor after x, Backspace twice: home
      KeysOf(<<"x", "h", "o", "m", "e">>) \o <<LEFT, LEFT, LEFT, LEFT, BACKSPACE, BACKSPACE, ENTER>>,
      \* Backspace on the empty line, then a carriage return before the Enter
      <<BACKSPACE, DELETE>> \o KeysOf(<<"t", "o", "p">>) \o << <<"\r">>, ENTER >>,
      \* Down, then Up, in the middle of a command
      KeysOf(<<"b", "o", "t">>) \o <<DOWN, UP>> \o Command(<<"t", "o", "m">>),
      \* a search, then its first result
      Command(<<"s", "e", "a", "r", "c", "h", " ", "k", "a">>) \o Command(<<"#", "1">>),
      \* a day with an event, then the event
      Command(<<"d", "a", "y", " ", "2">>) \o Command(<<"#", "1">>),
      \* exit, with a command typed behind it
      Command(<<"e", "x", "i", "t">>) \o Command(<<"h", "o", "m", "e">>) }

\* Renderer.processInput of a key other than Enter, lines 1190-1247 and
\* 1344-1363; the terminal reports its cursor to fetchCursor
KeyResult(st, key) ==
    CASE key = UP -> Moved(st, "scrollUp", ScrollUpResult)
      [] key = DOWN -> Moved(st, "scrollDown", ScrollDownResult)
      [] key = <<"\r">> -> st
      [] key \in {BACKSPACE, DELETE} /\ st.input = <<>> -> st
      [] OTHER ->
           LET e == EditResult(key, st.input, st.cursor[1], st.cursor[2])
           IN  [st EXCEPT !.input = e[1], !.cursor = e[2]]

\* the user sets out to type keys
Begin(keys) ==
    /\ pc = "poll"
    /\ todo = <<>>
    /\ submits < MaxCmds
    /\ todo' = keys
    /\ submits' = submits + 1
    /\ UNCHANGED <<termVars, ctlVars, histVars, mainVars, navVars, layVars>>
    /\ UNCHANGED <<core, cmd, action, wrote, exitCode>>

\* main, lines 1382-1388, for a key other than Enter: processInput returns
\* None
CmdKey ==
    /\ pc = "poll"
    /\ todo # <<>>
    /\ Head(todo) # ENTER
    /\ todo' = Tail(todo)
    /\ Render([KeyResult(Rend, Head(todo)) EXCEPT !.wrote = wrote])
    /\ UNCHANGED <<stack, page, errRoot, columns, navLog, stackBefore>>
    /\ UNCHANGED <<pc, crash, exitCode, cmd, action, submits>>
    /\ MainFrame

\* main, lines 1382-1430, for Enter: processInput runs the command (lines
\* 1248-1343) and main handles the action it returns
CmdEnter ==
    /\ pc = "poll"
    /\ todo # <<>>
    /\ Head(todo) = ENTER
    /\ todo' = Tail(todo)
    /\ cmd' = Strip(input)
    /\ submits' = submits
    /\ IF Strip(input) = <<>>
       THEN /\ action' = NoAction
            /\ Render(Rend)
            /\ UNCHANGED <<stack, page, errRoot, columns, navLog, stackBefore>>
            /\ UNCHANGED <<pc, crash, exitCode>>
            /\ MainFrame
       ELSE \E r \in {EnterResult(Rend, Strip(input), page, PageRoot(page, errRoot), columns)} :
              /\ action' = r.action
              /\ CASE r.action.type = "Navigate" -> MainNavigate(r.action.uri)
                   [] r.action.type = "Home" -> MainHome
                   [] r.action.type = "Back" -> MainBack
                   [] r.action.type = "Setting" ->
                        MainSetting(r.action.setting, r.action.value)
                   [] r.action.type = "Random" -> MainRandom
                   [] r.action.type = "Help" -> MainHelp
                   [] r.action.type = "Exit" -> MainExit
                   [] OTHER ->
                        /\ Render(r.st)
                        /\ UNCHANGED <<stack, page, errRoot, columns, navLog, stackBefore>>
                        /\ UNCHANGED <<pc, crash, exitCode>>
                        /\ MainFrame

CmdNext ==
    \/ MainStart /\ Idle
    \/ \E keys \in Commands \cup Sessions : Begin(keys)
    \/ CmdKey
    \/ CmdEnter

CmdSpec == NavInit /\ [][CmdNext]_vars

(***************************************************************************)
(* EditSpec: the user edits the command line, one key at a time; main      *)
(* hands each key to processInput as in CmdSpec.                           *)
(***************************************************************************)
EditKeys == { <<"a">>, <<"b">>, LEFT, RIGHT, BACKSPACE, DELETE }

\* the user strikes key; a letter only while the command line has fewer than
\* MaxInput characters
Strike(key) ==
    /\ pc = "poll"
    /\ todo = <<>>
    /\ key \in { <<"a">>, <<"b">> } => Len(input) < MaxInput
    /\ todo' = <<key>>
    /\ UNCHANGED <<termVars, ctlVars, histVars, mainVars, navVars, layVars>>
    /\ UNCHANGED <<core, cmd, action, wrote, exitCode, submits>>

EditNext ==
    \/ MainStart /\ Idle
    \/ \E key \in EditKeys : Strike(key)
    \/ CmdKey

EditSpec == NavInit /\ [][EditNext]_vars

(***************************************************************************)
(* MarginSpec: the user types a command line that reaches the last column  *)
(* of the terminal and goes on typing; typed records the keys struck.      *)
(***************************************************************************)
Letters == { <<"a">>, <<"b">> }

\* the user types a's until the cursor is in the last column
Fill ==
    /\ pc = "poll"
    /\ todo = <<>>
    /\ input = <<>> /\ typed = <<>>
    /\ todo' = [i \in 1..(columns - 1) |-> <<"a">>]
    /\ typed' = [i \in 1..(columns - 1) |-> <<"a">>]
    /\ UNCHANGED <<termVars, ctlVars, delivered, fates, mainVars, navVars, layVars>>
    /\ UNCHANGED <<core, cmd, action, wrote, exitCode, submits>>

\* the user strikes one of at most MaxStrikes more keys
StrikeAtMargin(key) ==
    /\ pc = "poll"
    /\ todo = <<>>
    /\ typed # <<>>
    /\ Len(typed) < (columns - 1) + MaxStrikes
    /\ todo' = <<key>>
    /\ typed' = Append(typed, key)
    /\ UNCHANGED <<termVars, ctlVars, delivered, fates, mainVars, navVars, layVars>>
    /\ UNCHANGED <<core, cmd, action, wrote, exitCode, submits>>

MarginNext ==
    \/ MainStart /\ Idle
    \/ Fill
    \/ \E key \in EditKeys : StrikeAtMargin(key)
    \/ CmdKey

MarginSpec == NavInit /\ [][MarginNext]_vars

(***************************************************************************)
(* TextRendererCore.wordWrap on its own: a text is wrapped at the width    *)
(* of the terminal, and the outcome is wrapped again at the same width.    *)
(***************************************************************************)
WrapAlphabet == {"a", " ", NL, "\r"}

WrapTexts == UNION { [1..n -> WrapAlphabet] : n \in 0..MaxText }

FoxText ==
    <<"T", "h", "e", " ", "q", "u", "i", "c", "k", " ", "b", "r", "o", "w",
      "n", " ", "f", "o", "x">>

LinkText ==
    <<"[", "S", "e", "e", " ", "h", "e", "r", "e", "]", " ", "f", "o", "r",
      " ", "m", "o", "r", "e">>

\* "[a [b] c]": a link inside a link, all on one line
NestedText == <<"[", "a", " ", "[", "b", "]", " ", "c", "]">>

\* the same link with a line break inside the inner link
NestedAcrossText == <<"[", "a", " ", "[", "b", NL, "c", "]", " ", "d", "]", " ", "e">>

\* a text one viewport and ExtraLines lines long: a link runs over its
\* first three lines and another over the three lines from the last line
\* of the first viewport on
SpanLine(i) ==
    CASE i = 1 -> <<"[", "a">>
      [] i = 2 -> <<"b">>
      [] i = 3 -> <<"c", "]", " ", "d">>
      [] i = ViewRows -> <<"[", "x">>
      [] i = ViewRows + 1 -> <<"y">>
      [] i = ViewRows + 2 -> <<"z", "]", " ", "w">>
      [] OTHER -> IntToDigits(i)

RECURSIVE SpanLines(_)
SpanLines(n) ==
    IF n = 1 THEN SpanLine(1) ELSE SpanLines(n - 1) \o <<NL>> \o SpanLine(n)

SpanText == SpanLines(NumLines)

WrapInputs ==
    { [text |-> t, width |-> w] : t \in WrapTexts, w \in 1..MaxWidth }
      \cup { [text |-> FoxText, width |-> 10], [text |-> LinkText, width |-> 8] }

WrapInit ==
    /\ InitCommon
    /\ stack = <<>> /\ page = NoPage /\ errRoot = <<"LOCAL", ".", "ERR">>
    /\ navLog = <<>> /\ stackBefore = <<>> /\ lastError = <<>>
    /\ NoText
    /\ core = [NoCore EXCEPT !.kind = "text"]
    /\ pc = "wrap"
    /\ cursor = <<1, 1>>
    /\ \E i \in WrapInputs : source = i.text /\ columns = i.width
    /\ wrapped = <<>> /\ rewrapped = <<>>
    /\ restText = <<>> /\ joinedText = <<>> /\ currentLine = <<>>

\* text = self.wordWrap(text), line 207
Wrap ==
    /\ pc = "wrap"
    /\ wrapped' = WordWrap(source, columns)
    /\ pc' = "rewrap"
    /\ UNCHANGED <<termVars, call, ret, pos, crash, entryLeftover, queries>>
    /\ UNCHANGED <<histVars, mainVars, navVars, text, outVars, source, rewrapped, loopVars, cmdVars>>

\* wordWrap of what wordWrap returned
Rewrap ==
    /\ pc = "rewrap"
    /\ rewrapped' = WordWrap(wrapped, columns)
    /\ pc' = "done"
    /\ UNCHANGED <<termVars, call, ret, pos, crash, entryLeftover, queries>>
    /\ UNCHANGED <<histVars, mainVars, navVars, text, outVars, source, wrapped, loopVars, cmdVars>>

WrapNext ==
    \/ Wrap
    \/ Rewrap

WrapSpec == WrapInit /\ [][WrapNext]_vars

(***************************************************************************)
(* PassSpec: wordWrap pass by pass, from the start of its loop (line 141)  *)
(* to its return (line 203).  The interpreter runs the loop on whenever it *)
(* has a pass to make.                                                     *)
(***************************************************************************)
PassAlphabet == {"a", " ", NL}

PassInputs ==
    { [text |-> t, width |-> w] :
        t \in UNION { [1..n -> PassAlphabet] : n \in 0..MaxText }, w \in 1..MaxWidth }

PassInit ==
    /\ InitCommon
    /\ stack = <<>> /\ page = NoPage /\ errRoot = <<"LOCAL", ".", "ERR">>
    /\ navLog = <<>> /\ stackBefore = <<>> /\ lastError = <<>>
    /\ NoText
    /\ core = [NoCore EXCEPT !.kind = "text"]
    /\ pc = "pass"
    /\ cursor = <<1, 1>>
    /\ \E i \in PassInputs :
          source = i.text /\ columns = i.width /\ restText = ReplaceCRLF(i.text)
    /\ joinedText = <<>> /\ currentLine = <<>>
    /\ wrapped = <<>> /\ rewrapped = <<>>

\* what no step of wordWrap touches
PassFrame ==
    /\ UNCHANGED <<termVars, call, ret, pos, crash, entryLeftover, queries>>
    /\ UNCHANGED <<histVars, mainVars, navVars, text, outVars, source, rewrapped, cmdVars>>

\* "while text:", lines 141-199: one pass
Pass ==
    /\ pc = "pass"
    /\ restText # <<>>
    /\ \E p \in {WrapPass(restText, joinedText, currentLine, columns)} :
          restText' = p.text /\ joinedText' = p.newText /\ currentLine' = p.curLine
    /\ UNCHANGED <<pc, wrapped>>
    /\ PassFrame

\* lines 201-203: the final joinLines and the return
Return ==
    /\ pc = "pass"
    /\ restText = <<>>
    /\ \E j \in {JoinLines(joinedText, currentLine)} :
          joinedText' = j[1] /\ currentLine' = j[2] /\ wrapped' = j[1]
    /\ pc' = "done"
    /\ UNCHANGED restText
    /\ PassFrame

PassNext ==
    \/ Pass
    \/ Return

PassSpec == PassInit /\ [][PassNext]_vars /\ WF_vars(PassNext)

(***************************************************************************)
(* TextRendererCore on its own, from its first displayText on (lines       *)
(* 1051-1052): texts of several lengths are displayed and the viewport is  *)
(* moved over them.                                                        *)
(***************************************************************************)
LayoutSizes ==
    {1, ViewRows - ExtraLines, ViewRows, ViewRows + ExtraLines, 2 * ViewRows + ExtraLines}

LayoutTexts ==
    {Numbered(n) : n \in LayoutSizes}
      \cup {LinkText, NestedText, NestedAcrossText, SpanText, <<>>}

LayoutWidths == {8, TerminalColumns}

LayoutInit ==
    /\ InitCommon
    /\ stack = <<>> /\ page = NoPage /\ errRoot = <<"LOCAL", ".", "ERR">>
    /\ navLog = <<>> /\ stackBefore = <<>> /\ lastError = <<>>
    /\ wrapped = <<>> /\ rewrapped = <<>>
    /\ restText = <<>> /\ joinedText = <<>> /\ currentLine = <<>>
    /\ core = [NoCore EXCEPT !.kind = "text"]
    /\ pc = "layout"
    /\ cursor = <<1, 1>>
    /\ columns \in LayoutWidths
    /\ source \in LayoutTexts
    /\ text = DisplayTextResult(source, columns).text
    /\ sent = DisplayTextResult(source, columns).sent
    /\ op = "displayText" /\ lineBefore = 0

\* what no operation of the layout engine touches
LayoutFrame ==
    /\ UNCHANGED <<termVars, ctlVars, histVars, navVars, wrapped, rewrapped, loopVars, cmdVars>>
    /\ UNCHANGED <<inputVal, queueAtDeq, dispatched, scrolls, input>>

\* an operation that moves the viewport over the text on display
Move(name, r) ==
    /\ line' = r.line
    /\ Sent(name, r.sent)
    /\ UNCHANGED <<text, source>>
    /\ LayoutFrame

DisplayText(src) ==
    /\ pc = "layout"
    /\ \E r \in {DisplayTextResult(src, columns)} :
         text' = r.text /\ line' = r.line /\ Sent("displayText", r.sent)
    /\ source' = src
    /\ LayoutFrame

ScrollUp ==
    /\ pc = "layout"
    /\ Move("scrollUp", ScrollUpResult)

ScrollDown ==
    /\ pc = "layout"
    /\ Move("scrollDown", ScrollDownResult)

PageUp ==
    /\ pc = "layout"
    /\ Move("pageUp", PageUpResult)

PageDown ==
    /\ pc = "layout"
    /\ Move("pageDown", PageDownResult)

GoToTop ==
    /\ pc = "layout"
    /\ Move("goToTop", GoToTopResult)

GoToBottom ==
    /\ pc = "layout"
    /\ Move("goToBottom", GoToBottomResult)

LayoutNext ==
    \/ \E src \in LayoutTexts : DisplayText(src)
    \/ ScrollUp
    \/ ScrollDown
    \/ PageUp
    \/ PageDown
    \/ GoToTop
    \/ GoToBottom

LayoutSpec == LayoutInit /\ [][LayoutNext]_vars

(***************************************************************************)
(* Properties of the Terminal object (TermSpec).                           *)
(***************************************************************************)
IsKeyByte(b) == b[2] = "key"

\* the keystroke items a sequence of key bytes holds, in order
RECURSIVE KeyItemsOf(_)
KeyItemsOf(bs) ==
    IF bs = <<>> THEN <<>>
    ELSE IF Ch(Head(bs)) = ESCAPE
         THEN <<SubSeq(bs, 2, 3)>> \o KeyItemsOf(SubSeq(bs, 4, Len(bs)))
         ELSE <<<<Head(bs)>>>> \o KeyItemsOf(Tail(bs))

\* bytes that arrived and are not parsed yet, oldest first
Unparsed == (IF pc = "frame" THEN accum ELSE <<>>) \o leftover \o wire

TypedItems == [i \in 1..Len(typed) |-> KeyItem(typed[i])]

IsPrefix(a, b) == Len(a) <= Len(b) /\ a = SubSeq(b, 1, Len(a))

\* C1: the items recvInput has returned are the first keys typed, in typed
\* order, and as long as no exception has ended the session every key typed
\* is either returned, or queued behind the returned ones, or still unparsed
\* behind the queued ones: none is dropped, duplicated or reordered, whatever
\* queries were interleaved.
C1_KeystrokesInTypedOrder ==
    /\ IsPrefix(delivered, TypedItems)
    /\ pc # "crashed" =>
         delivered \o pending \o KeyItemsOf(SelectSeq(Unparsed, IsKeyByte)) = TypedItems

\* a key typed while fetchCursor waited was found by the query and later
\* returned by recvInput, after a key typed before the query
C1_Witness ==
    /\ queries = 1
    /\ Len(typed) = 2
    /\ delivered = TypedItems
    /\ call = "input"
    /\ pc = "ret"
    /\ \E i \in 1..Len(accum) : IsKeyByte(accum[i])
    /\ \E i \in 1..Len(accum) : ~IsKeyByte(accum[i])

\* position of the first byte of bs with character c, 0 when there is none
FirstAt(bs, c) ==
    IF \E i \in 1..Len(bs) : Ch(bs[i]) = c
    THEN CHOOSE i \in 1..Len(bs) : Ch(bs[i]) = c /\ \A j \in 1..(i - 1) : Ch(bs[j]) # c
    ELSE 0

\* C2: when fetchCursor returns, its value is the position the terminal
\* reported (for ESC [ 6 ; 1 2 R x: (6,12)) and the bytes of the frame after
\* the report's R are the leftover; a recvInput entered with a literal byte at
\* the head of the leftover returns that byte; and while leftover bytes remain
\* no byte is taken from the serial line.
C2_CursorReportThenLeftover ==
    /\ [](pc = "ret" /\ call = "cursor" =>
            /\ pos = cursor
            /\ leftover = SubSeq(accum, FirstAt(accum, "R") + 1, Len(accum))
            /\ Chars(accum) = <<ESCAPE, "[", "6", ";", "1", "2", "R", "x">> =>
                  pos = <<6, 12>> /\ leftover = <<KeyByte("x")>>)
    /\ [](pc = "ret" /\ call = "input" /\ entryLeftover # <<>>
            /\ Ch(Head(entryLeftover)) # ESCAPE => ret = <<Head(entryLeftover)>>)
    /\ [][leftover # <<>> => IsPrefix(wire, wire')]_vars

\* ESC [ 6 ; 1 2 R x was one frame of a cursor query and the next recvInput
\* returned x
C2_Witness ==
    /\ pc = "ret"
    /\ call = "input"
    /\ queries = 1
    /\ typed = <<"x">>
    /\ entryLeftover = <<KeyByte("x")>>
    /\ ret = <<KeyByte("x")>>

\* C3: a frame that completes holding only the beginning of an escape
\* sequence is never an error.
C3_PartialResponseNeverAnError ==
    crash # "Should have found end of command marker!"

(***************************************************************************)
(* Properties of the main loop (Spec).                                     *)
(***************************************************************************)
\* cs is [row;colR: '[', digits, ';', digits, 'R'
WellFormedReport(cs) ==
    /\ Len(cs) >= 5
    /\ cs[1] = "["
    /\ cs[Len(cs)] = "R"
    /\ \E i \in 3..(Len(cs) - 2) :
         /\ cs[i] = ";"
         /\ \A j \in 2..(Len(cs) - 1) : j # i => cs[j] \in Digits

\* C4: once a cursor query of processInput has been handed a framed response
\* (arrow frames are queued, not handed over), the session has been ended by
\* the uncaught exception exactly when the response is not of the shape
\* [row;colR.
C4_MalformedCursorResponseAborts ==
    (call = "cursor" /\ pc # "frame" /\ SplitFrame(accum).kind = "response") =>
        IF WellFormedReport(Chars(SplitFrame(accum).resp))
        THEN pc # "crashed" /\ crash = ""
        ELSE /\ pc = "crashed"
             /\ crash \in {"Invalid response for cursor fetch!", "ValueError"}

\* a response with no ';' reached fetchCursor and ended the session
C4_Witness ==
    /\ pc = "crashed"
    /\ call = "cursor"
    /\ crash = "ValueError"
    /\ Chars(SplitFrame(accum).resp) = <<"[", "2", "4", "R">>

\* a single literal byte typed by the user, or an arrow code typed by the user
IsKeystrokeItem(it) ==
    /\ \A i \in 1..Len(it) : IsKeyByte(it[i])
    /\ \/ Len(it) = 1 /\ Ch(it[1]) # ESCAPE
       \/ Chars(it) \in {UP, DOWN, LEFT, RIGHT}

\* C5: every item in the keystroke queue, every item recvInput returned and
\* every item handed to processInput is one literal key byte or one arrow
\* code; no byte of a response is among them.
C5_OnlyKeystrokesReachInput ==
    /\ \A i \in 1..Len(pending) : IsKeystrokeItem(pending[i])
    /\ \A i \in 1..Len(delivered) : IsKeystrokeItem(delivered[i])
    /\ \A i \in 1..Len(dispatched) : IsKeystrokeItem(dispatched[i])
    /\ inputVal # None => IsKeystrokeItem(inputVal)

\* two literals were inserted, each after a cursor report was consumed
C5_Witness ==
    /\ pc = "poll"
    /\ call = "cursor"
    /\ Len(dispatched) = 2
    /\ input = <<"x", "x">>

\* the delivered items that main kept for processInput
RECURSIVE KeptUpTo(_)
KeptUpTo(n) ==
    IF n = 0 THEN <<>>
    ELSE IF fates[n] = "d" THEN Append(KeptUpTo(n - 1), delivered[n])
         ELSE KeptUpTo(n - 1)

Kept == KeptUpTo(Len(fates))

\* the scroll calls a sequence of dispatched items makes
RECURSIVE ScrollsOf(_)
ScrollsOf(items) ==
    IF items = <<>> THEN <<>>
    ELSE (IF Chars(Head(items)) = UP THEN <<"up">>
          ELSE IF Chars(Head(items)) = DOWN THEN <<"down">> ELSE <<>>)
         \o ScrollsOf(Tail(items))

HoldKeys == {"Up", "Down"}

HoldNext ==
    \/ \E k \in HoldKeys : Len(typed) < MaxHeld /\ TypeKey(k)
    \/ MainPoll
    \/ MainGotInput
    \/ MainDedup
    \/ MainDispatch
    \/ ReadByte
    \/ ReadGap

HoldSpec == Init /\ [][HoldNext]_vars

\* number of leading items of q that are the code of v
RECURSIVE RunLength(_, _)
RunLength(q, v) ==
    IF q = <<>> \/ Chars(Head(q)) # Chars(v) THEN 0
    ELSE 1 + RunLength(Tail(q), v)

\* C7: when main hands an Up (or Down) code to processInput, the whole run of
\* k identical codes that headed the queue when the first was dequeued has
\* been taken off the queue, the first of them is the one handed over and the
\* k-1 others were discarded; every code handed over makes one scroll call,
\* so the run makes exactly one scrollUp (or scrollDown).
C7_HeldRunScrollsOnce ==
    /\ (pc = "dispatch" /\ Chars(inputVal) \in {UP, DOWN}) =>
         LET k == RunLength(queueAtDeq, inputVal)
             n == Len(delivered)
         IN  /\ k >= 1
             /\ pending = SubSeq(queueAtDeq, k + 1, Len(queueAtDeq))
             /\ Len(fates) = n
             /\ fates[n - k + 1] = "d"
             /\ \A i \in (n - k + 2)..n : fates[i] = "x"
             /\ \A i \in (n - k + 1)..n : delivered[i] = queueAtDeq[i - (n - k)]
    /\ scrolls = ScrollsOf(dispatched)
    /\ pc \notin {"dedup", "dispatch"} => dispatched = Kept

\* five Up codes were queued together and made one scrollUp call
C7_Witness ==
    /\ pc = "poll"
    /\ [i \in 1..Len(queueAtDeq) |-> Chars(queueAtDeq[i])] = <<UP, UP, UP, UP, UP>>
    /\ delivered = queueAtDeq
    /\ fates = <<"d", "x", "x", "x", "x">>
    /\ scrolls = <<"up">>

(***************************************************************************)
(* Liveness of the main loop (LiveSpec).                                   *)
(***************************************************************************)
\* C6: every iteration of the main polling loop eventually completes: once
\* the loop has left its top (the recvInput poll, the de-duplication, the
\* handling of the key and the cursor query it issues), it comes back to the
\* top, or the program has ended, even if the terminal sends nothing more.
C6_EveryIterationCompletes ==
    (pc \notin {"poll", "crashed"}) ~> (pc \in {"poll", "crashed"})

(***************************************************************************)
(* Properties of the navigation stack (NavSpec).                           *)
(***************************************************************************)
Last(s) == s[Len(s)]

\* the last two calls made on the Navigation object
EndsWith(log, a, b) ==
    Len(log) >= 2 /\ log[Len(log) - 1] = a /\ log[Len(log)] = b

\* C9: once the first page has been shown, under any sequence of navigate,
\* back, home, help, random and settings actions, the navigation stack has
\* length >= 1, and canGoBack() is true exactly when the length exceeds 1.
C9_StackNeverEmpty ==
    pc # "start" =>
        /\ Len(stack) >= 1
        /\ CanGoBack(stack) <=> (Len(stack) > 1)

C9_Witness ==
    /\ pc = "poll"
    /\ navLog = <<"n", "n", "b">>
    /\ Len(stack) = 1
    /\ columns = 132

\* C10: after one navigate() canGoBack() is false; after a second it is
\* true; a following back() returns the page resolved from the first
\* identifier and canGoBack() is false again.  In general a back() right
\* after navigate(u) leaves the stack as it was before that navigate and
\* returns the resolution of the restored top identifier.
C10_NavigateBackAlgebra ==
    /\ navLog = <<"n">> => ~CanGoBack(stack)
    /\ navLog = <<"n", "n">> => CanGoBack(stack)
    /\ navLog = <<"n", "n", "b">> =>
          /\ ~CanGoBack(stack)
          /\ page = GetPage(stackBefore[1]).page
          /\ errRoot = GetPage(stackBefore[1]).root
    /\ EndsWith(navLog, "n", "b") =>
          /\ stack = stackBefore
          /\ page = GetPage(Last(stackBefore)).page
          /\ errRoot = GetPage(Last(stackBefore)).root

C10_Witness ==
    /\ navLog = <<"n", "n", "n", "b">>
    /\ stack = <<HomeUri, <<"NO", ".", "SUCH">>>>
    /\ page.kind = "nonexistant"
    /\ errRoot = <<"NO", ".", "SUCH">>
    /\ pc = "poll"

\* C11: with no history (one identifier on the stack) Navigation.back()
\* raises the navigation error and leaves the stack and the page alone; main
\* never raises that error; and a back command in that state changes neither
\* the stack nor the page, puts up the banner "No previous page!" and leaves
\* the program running.
C11_BackWithoutHistory ==
    /\ [](Len(stack) = 1 =>
            /\ BackResult.crash = "NavigationException"
            /\ ~BackResult.ok
            /\ BackResult.stack = stack
            /\ BackResult.navLog = navLog
            /\ BackResult.page = page)
    /\ [](crash # "NavigationException")
    /\ [][(pc = "poll" /\ Len(stack) = 1 /\ MainBack) =>
            /\ stack' = stack
            /\ page' = page
            /\ navLog' = navLog
            /\ lastError' = <<"No previous page!">>
            /\ pc' = "poll"
            /\ crash' = crash]_vars

\* back was asked for once more after a back had emptied the history
C11_Witness ==
    /\ pc = "poll"
    /\ navLog = <<"n", "n", "b">>
    /\ stack = <<HomeUri>>
    /\ lastError = <<"No previous page!">>

\* C12: navigate(uri) never raises: after every navigate the stack is the
\* stack before it with uri on top, and the page returned is the resolution
\* of uri (the page itself, the domain's error page or the connection-error
\* page).
C12_NavigateAlwaysSucceeds ==
    /\ crash # "WikiException"
    /\ (navLog # <<>> /\ Last(navLog) = "n") =>
          /\ stack # <<>>
          /\ stack = Append(stackBefore, Last(stack))
          /\ GetPage(Last(stack)).ok
          /\ page = GetPage(Last(stack)).page

(***************************************************************************)
(* Properties of wordWrap (WrapSpec).                                      *)
(***************************************************************************)
\* C17: for every terminal width of at least one column, every line of the
\* text wordWrap returns is at most that many characters long.
C17_WrappedLinesFit ==
    pc # "wrap" =>
        /\ columns >= 1
        /\ \A i \in 1..Len(SplitLines(wrapped)) : Len(SplitLines(wrapped)[i]) <= columns

\* a word longer than the terminal is wide has been split
C17_Witness ==
    /\ pc = "rewrap" /\ columns = 2
    /\ source = <<"a", "a", "a", " ", "a">>
    /\ wrapped = <<"a", "a", NL, "a", " ", NL, "a">>

\* C18: wrapping a text that wordWrap returned, at the same width, returns it
\* unchanged.
C18_WrapIdempotent == pc = "done" => rewrapped = wrapped

\* C19: wrapping "The quick brown fox" at width 10 gives exactly two lines,
\* "The quick " and "brown fox": the word "quick" is shorter than the space
\* left, so it is appended with its trailing space, which fills the tenth
\* column of the first line.
C19_FoxKeepsTrailingSpace ==
    (pc # "wrap" /\ source = FoxText /\ columns = 10) =>
        SplitLines(wrapped) =
            << <<"T", "h", "e", " ", "q", "u", "i", "c", "k", " ">>,
               <<"b", "r", "o", "w", "n", " ", "f", "o", "x">> >>

C19_Witness ==
    /\ pc = "rewrap" /\ source = FoxText /\ columns = 10
    /\ Len(SplitLines(wrapped)) = 2

\* C19 as stated: the two lines are "The quick" and "brown fox", the space at
\* the break belonging to neither.
C19_FoxDropsBreakSpace ==
    (pc # "wrap" /\ source = FoxText /\ columns = 10) =>
        SplitLines(wrapped) =
            << <<"T", "h", "e", " ", "q", "u", "i", "c", "k">>,
               <<"b", "r", "o", "w", "n", " ", "f", "o", "x">> >>

(***************************************************************************)
(* Properties of the layout engine (LayoutSpec).                           *)
(***************************************************************************)
MaxOffset == IF Len(text) - ViewRows > 0 THEN Len(text) - ViewRows ELSE 0

\* C13: in every reachable state of the layout engine, whatever the line
\* count of the text, the scroll offset lies between 0 and
\* max(0, line count - viewport rows).
C13_OffsetInRange == 0 <= line /\ line <= MaxOffset

\* the pieces of text among the items sent, and their concatenation
TextItems(items) == SelectSeq(items, LAMBDA it : ~IsCmd(it))

RECURSIVE Flatten(_)
Flatten(items) == IF items = <<>> THEN <<>> ELSE Head(items) \o Flatten(Tail(items))

\* item a is sent before item b
SentBefore(a, b) == \E i, j \in 1..Len(sent) : i < j /\ sent[i] = a /\ sent[j] = b

\* the last operation was a scroll with a line of the text beyond the edge of
\* the viewport it scrolls towards; for an offset within
\* 0..max(0, total - rows) that is: the offset was not at that boundary
ScrollHadRoom ==
    \/ op = "scrollUp" /\ lineBefore > 0
    \/ op = "scrollDown" /\ lineBefore + ViewRows < Len(text)

\* the line that enters the viewport: index offset for scrollUp and
\* offset + rows - 1 for scrollDown, counted from 0
EnteringLine == IF op = "scrollUp" THEN text[line + 1] ELSE text[line + ViewRows]

\* C14: scrollUp and scrollDown move the offset by exactly one line when a
\* line lies beyond the viewport and otherwise change nothing and send
\* nothing; when they move they send the text of exactly one line, the one
\* entering the viewport, after the cursor is saved and the scroll region set,
\* and before the region is cleared and the cursor restored, and they clear
\* or repaint no other row.
C14_ScrollSendsEnteringLine ==
    op \in {"scrollUp", "scrollDown"} =>
        IF ScrollHadRoom
        THEN /\ line = IF op = "scrollUp" THEN lineBefore - 1 ELSE lineBefore + 1
             /\ TextItems(sent) # <<>>
             /\ Flatten(TextItems(sent)) = EnteringLine
             /\ sent[1] = Cmd(SAVE_CURSOR)
             /\ sent[Len(sent)] = Cmd(RESTORE_CURSOR)
             /\ \A i \in 1..Len(sent) :
                   ~IsCmd(sent[i]) =>
                       /\ SentBefore(Cmd(TURN_ON_REGION), sent[i])
                       /\ SentBefore(sent[i], Cmd(TURN_OFF_REGION))
             /\ \A i \in 1..Len(sent) :
                   sent[i] \notin {Cmd(CLEAR_LINE), Cmd(CLEAR_TO_END_OF_LINE)}
        ELSE line = lineBefore /\ sent = <<>>

\* a scroll down from the top of a text longer than the viewport: line
\* ViewRows + 1 of the text has been sent
C14_Witness ==
    /\ op = "scrollDown" /\ lineBefore = 0 /\ line = 1
    /\ TextItems(sent) = <<IntToDigits(ViewRows + 1)>>

\* an offset brought back into 0..max(0, total - rows)
Clamped(n) == IF n < 0 THEN 0 ELSE IF n > MaxOffset THEN MaxOffset ELSE n

\* the items sent hold every line of the text that is in the viewport
FullRepaint ==
    /\ sent # <<>>
    /\ \A i \in 1..Len(text) :
          (line < i /\ i <= line + ViewRows) => \E k \in 1..Len(sent) : sent[k] = text[i]

\* C15: pageUp and pageDown move the offset by rows - 1 lines, clamped to
\* 0..max(0, total - rows), and every call repaints the whole viewport.
C15_PageMovesClampedAndRepaints ==
    /\ op = "pageUp" => line = Clamped(lineBefore - (ViewRows - 1)) /\ FullRepaint
    /\ op = "pageDown" => line = Clamped(lineBefore + (ViewRows - 1)) /\ FullRepaint

\* C16: goToTop leaves the offset at 0 and goToBottom at
\* max(0, total - rows), whatever the length of the text; each sends
\* something exactly when it changed the offset.
C16_GoToEnds ==
    /\ op = "goToTop" => line = 0 /\ (sent = <<>> <=> lineBefore = 0)
    /\ op = "goToBottom" => line = MaxOffset /\ (sent = <<>> <=> lineBefore = MaxOffset)

\* "[See here] for more" wrapped at 8 columns
LinkLines == << <<"[", "S", "e", "e", " ">>, <<"h", "e", "r", "e", "]", " ">>, <<"f", "o", "r", " ", "m", "o", "r", "e">> >>

\* how often item x is among the items sent
CountSent(x) == Cardinality({k \in 1..Len(sent) : sent[k] = x})

\* the place of the n-th newline among the items sent
NewlineAt(n) ==
    CHOOSE k \in 1..Len(sent) :
        sent[k] = <<NL>> /\ Cardinality({j \in 1..k : sent[j] = <<NL>>}) = n

\* bold is on when the k-th item is sent
BoldOn(k) ==
    \E i \in 1..(k - 1) :
        sent[i] = Cmd(SET_BOLD) /\ \A j \in (i + 1)..(k - 1) : sent[j] # Cmd(SET_NORMAL)

\* the text sent with bold on (b = TRUE) or off, newlines left out
RECURSIVE TextSentUpTo(_, _)
TextSentUpTo(b, k) ==
    IF k = 0 THEN <<>>
    ELSE TextSentUpTo(b, k - 1)
           \o (IF ~IsCmd(sent[k]) /\ sent[k] # <<NL>> /\ BoldOn(k) = b THEN sent[k] ELSE <<>>)

PlaceOf(x) == CHOOSE k \in 1..Len(sent) : sent[k] = x

Linked(s, k) ==
    Cardinality({i \in 1..k : s[i] = "["}) > Cardinality({i \in 1..(k - 1) : s[i] = "]"})

\* the characters of s inside links (b = TRUE) or outside them
LinkedText(s, b) ==
    LET at == {k \in 1..Len(s) : Linked(s, k) = b}
    IN  [n \in 1..Cardinality(at) |->
            s[CHOOSE k \in at : Cardinality({j \in at : j <= k}) = n]]

\* C21: when a text with balanced brackets, nested or not, is displayed
\* whole, every character from an outermost "[" through its matching "]" is
\* sent with bold on and every other character with bold off.
C21_OutermostBracketsBold ==
    (op = "displayText" /\ Len(text) <= ViewRows /\ \E i \in 1..Len(text) : Find(text[i], "[") >= 0) =>
        /\ TextSentUpTo(TRUE, Len(sent)) = LinkedText(Flatten(text), TRUE)
        /\ TextSentUpTo(FALSE, Len(sent)) = LinkedText(Flatten(text), FALSE)

\* the lines of the text on display that lie in the window the last
\* operation redrew: one line for a scroll, the viewport otherwise
WindowLines ==
    LET lo == IF op = "scrollDown" THEN line + ViewRows ELSE line + 1
        hi == IF op = "scrollUp" THEN line + 1 ELSE line + ViewRows
    IN  SubSeq(text, IF lo < 1 THEN 1 ELSE lo, Min(hi, Len(text)))

\* C30: the empty text is displayed as one empty line, and whatever window
\* an operation redraws, also one that reaches beyond the last line or that
\* a request past either end of the text asked for, the text sent is the text
\* of the lines that exist in it, and no operation raises an error.
C30_EmptyTextAndClipping ==
    /\ crash = ""
    /\ source = <<>> => text = << <<>> >>
    /\ sent # <<>> =>
          Flatten(SelectSeq(sent, LAMBDA it : ~IsCmd(it) /\ it # <<NL>>)) = Flatten(WindowLines)

\* the empty text is on display and goToBottom was asked for
C30_Witness ==
    /\ source = <<>> /\ text = << <<>> >> /\ op = "goToBottom" /\ sent # <<>>

(***************************************************************************)
(* Properties of the command line (CmdSpec, EditSpec).                     *)
(***************************************************************************)
\* main hands an Enter to processInput while the command line holds command
Submits(command) ==
    /\ pc = "poll" /\ todo # <<>> /\ Head(todo) = ENTER /\ todo' = Tail(todo)
    /\ Strip(input) = command

\* command is "!N" for a number N below 1 or above the number of links of
\* the page on display
LinkOutOfRange(command) ==
    /\ command # <<>> /\ command[1] = "!" /\ ParseInt(Tail(command)).ok
    /\ \/ ParseInt(Tail(command)).val < 1
       \/ ParseInt(Tail(command)).val > Len(page.links)

UnknownLink == <<"Unknown link navigation request!">>

\* C22: "!N" with N below 1 or above the number of links of the page shows
\* the error "Unknown link navigation request!" and changes nothing else:
\* the stack, the page and its text, the command line, the cursor and the
\* offset stay as they were, no action is returned and nothing is navigated to.
C22_UnknownLinkChangesNothingElse ==
    [][\A command \in {Strip(input)} :
          (Submits(command) /\ LinkOutOfRange(command)) =>
              /\ lastError' = UnknownLink
              /\ action'.type = "None"
              /\ UNCHANGED <<stack, page, navLog, input, cursor, line, text, core, columns, pc>>]_vars

\* "!3" was submitted on the home page, which has two links, after another
\* page had been visited
C22_Witness ==
    /\ cmd = <<"!", "3">> /\ todo = <<>> /\ Len(page.links) = 2 /\ Len(stack) > 1
    /\ lastError = UnknownLink /\ input = <<"!", "3">>

\* command is one of the commands of the universal grammar, lines 1259-1341
IsUniversal(command) ==
    \/ command[1] = "!"
    \/ command \in { <<"b", "a", "c", "k">>, <<"h", "o", "m", "e">>, <<"r", "o", "o", "t">>,
                     <<"h", "e", "l", "p">>, <<"r", "a", "n", "d", "o", "m">>,
                     <<"e", "x", "i", "t">>, <<"n", "e", "x", "t">>, <<"p", "r", "e", "v">>,
                     <<"t", "o", "p">>, <<"b", "o", "t", "t", "o", "m">> }
    \/ \E word \in { <<"g", "o", "t", "o">>, <<"s", "e", "t">>, <<"c", "d">> } :
          IsCommand(command, word)

\* the grammar of the page on display leaves command unhandled
PageLeaves(command) == PageInput(Rend, command, page, columns).action.type = "None"

\* C23: a command that neither the grammar of the page nor the universal
\* grammar knows shows the error "Unrecognized command ..." and leaves the
\* command line, the cursor, the stack, the page and its text, the offset
\* and the columns as they were; no action is returned and the program goes
\* on polling for input.
C23_UnrecognizedChangesNothingElse ==
    [][\A command \in {Strip(input)} :
          (Submits(command) /\ command # <<>> /\ ~IsUniversal(command) /\ PageLeaves(command)) =>
              /\ lastError' = <<"Unrecognized command " \o Str(command)>>
              /\ action'.type = "None"
              /\ pc' = "poll"
              /\ UNCHANGED <<stack, page, navLog, input, cursor, line, text, core, columns>>]_vars

\* "roots", a command of dictionary pages, was submitted on a text page
\* reached from the home page
C23_Witness ==
    /\ cmd = <<"r", "o", "o", "t", "s">> /\ todo = <<>> /\ core.kind = "text" /\ Len(stack) > 1
    /\ lastError = <<"Unrecognized command roots">> /\ input = cmd /\ pc = "poll"

\* x is one of the items of the sequence s
Among(s, x) == \E i \in 1..Len(s) : s[i] = x

\* command is "set cols=V" or "set columns=V", V being the number of columns
\* the terminal already has
SetsSameColumns(command) ==
    /\ IsCommand(command, <<"s", "e", "t">>) /\ HasArgument(command)
    /\ SettingOf(Argument(command)).setting \in {"cols", "columns"}
    /\ \/ SettingOf(Argument(command)).value = "80" /\ columns = 80
       \/ SettingOf(Argument(command)).value = "132" /\ columns = 132

\* C24: setting the columns to the number the terminal already has sends
\* neither of the commands that switch the columns, asks for no status and
\* does not display the page again; columns, stack, page, text and offset
\* stay as they were.
C24_SameColumnsIsNoOp ==
    [][\A command \in {Strip(input)} :
          (Submits(command) /\ SetsSameColumns(command)) =>
              /\ ~Among(wrote', Cmd(SET_132_COLUMNS))
              /\ ~Among(wrote', Cmd(SET_80_COLUMNS))
              /\ ~Among(wrote', Cmd(REQUEST_STATUS))
              /\ ~Among(wrote', Cmd(CLEAR_TO_ORIGIN))
              /\ ~Among(wrote', Title(page, PageRoot(page, errRoot))[1])
              /\ UNCHANGED <<columns, stack, page, navLog, line, text, core, sent, op, pc>>]_vars

\* "set columns=132" was submitted a second time, at 132 columns
C24_Witness ==
    /\ cmd = <<"s", "e", "t", " ", "c", "o", "l", "u", "m", "n", "s", "=", "1", "3", "2">>
    /\ todo = <<>> /\ columns = 132 /\ submits = 2 /\ pc = "poll"
    /\ ~Among(wrote, Cmd(SET_132_COLUMNS))

\* command asks a dictionary page for a root or a word it does not list
\* (displayFailure, lines 573-582)
DictionaryMisses(command) ==
    /\ core.kind = "dict"
    /\ \/ /\ IsCommand(command, <<"r", "o", "o", "t">>) /\ HasArgument(command)
          /\ ~Listed(page.data.roots, Lower(Argument(command)))
       \/ /\ IsCommand(command, <<"w", "o", "r", "d">>) /\ HasArgument(command)
          /\ ~Listed(page.data.words, Lower(Argument(command)))

\* the step executes command with success: no error is on display after
\* it, the entry asked of a dictionary exists, and the program neither
\* stopped nor exited
Succeeds(command) ==
    /\ Submits(command) /\ command # <<>>
    /\ pc' = "poll" /\ lastError' = <<>> /\ ~DictionaryMisses(command)

\* C25: after every command executed with success (a navigation by link,
\* result, goto, cd, home, root, help, random or back, a move of the
\* viewport, a valid change of the columns, a page's own command) the
\* command line is empty and its cursor is at column 1.
C25_SuccessClearsCommandLine ==
    [][\A command \in {Strip(input)} :
          Succeeds(command) => input' = <<>> /\ cursor' = <<TerminalRows, 1>>]_vars

\* "next" moved the viewport down and left the command line empty
C25_Witness ==
    /\ cmd = <<"n", "e", "x", "t">> /\ todo = <<>> /\ op = "pageDown" /\ line > 0
    /\ lastError = <<>> /\ pc = "poll" /\ input = <<>> /\ cursor = <<TerminalRows, 1>>

\* C26: whatever letters, Lefts, Rights, Backspaces and Deletes are typed,
\* the column c of the cursor of the command line stays within
\* 1 <= c <= length of the command line + 1: Left at column 1 and Right at
\* column length + 1 move nothing, and every letter put in or taken out
\* leaves the cursor within the range.
C26_CursorWithinCommandLine ==
    [][(pc = "poll" /\ todo # <<>> /\ todo' = Tail(todo)) =>
          /\ 1 <= cursor'[2] /\ cursor'[2] <= Len(input') + 1
          /\ (Head(todo) = LEFT /\ cursor[2] = 1) => UNCHANGED <<cursor, input>>
          /\ (Head(todo) = RIGHT /\ cursor[2] = Len(input) + 1) => UNCHANGED <<cursor, input>>
          /\ Head(todo) \in {LEFT, RIGHT} => input' = input
          /\ Head(todo) \in {BACKSPACE, DELETE} => Len(input') >= Len(input) - 1
          /\ Head(todo) \in {<<"a">>, <<"b">>} => Len(input') = Len(input) + 1]_vars

\* Left is struck with the cursor at column 1 of a full command line whose
\* letters were not typed in their order
C26_Witness ==
    /\ todo = <<LEFT>> /\ cursor = <<TerminalRows, 1>>
    /\ input = <<"a", "b", "a">>

\* command is "goto PATH", or "!N" for one of the links of the page
AsksForPath(command) ==
    /\ command # <<>> /\ PageLeaves(command)
    /\ \/ /\ command[1] = "!" /\ ParseInt(Tail(command)).ok
          /\ ParseInt(Tail(command)).val \in 1..Len(page.links)
       \/ IsCommand(command, <<"g", "o", "t", "o">>) /\ HasArgument(command)

\* the path or link target the command names, as tokens
PathAsked(command) ==
    IF command[1] = "!" THEN page.links[ParseInt(Tail(command)).val]
    ELSE Tokens(Argument(command))

Unqualified(path) == Find(path, ":") < 0
Absolute(path)    == path # <<>> /\ path[1] = "/"

\* <domain of the page on display>:<path>
InCurrentDomain(path) == PageRoot(page, errRoot) \o <<":">> \o path

\* C27: for "goto PATH" and for the target of "!N", a path without ":" that
\* starts with "/" is resolved against the domain of the page on display
\* (the identifier navigated to is <domain>:<path>); a path that holds a ":"
\* or does not start with "/" is navigated to as it is written.
C27_AbsolutePathsResolveInDomain ==
    [][\A command \in {Strip(input)} :
          (Submits(command) /\ AsksForPath(command)) =>
              /\ action'.type = "Navigate"
              /\ action'.uri = IF Unqualified(PathAsked(command)) /\ Absolute(PathAsked(command))
                               THEN InCurrentDomain(PathAsked(command))
                               ELSE PathAsked(command)
              /\ stack' = Append(stack, action'.uri)]_vars

\* "goto MAIN" was submitted on a page of NX.INDEX and MAIN was navigated to
C27_Witness ==
    /\ cmd = <<"g", "o", "t", "o", " ", "M", "A", "I", "N">> /\ todo = <<>>
    /\ action = NavigateAction(<<"MAIN">>)
    /\ stack = <<HomeUri, <<"MAIN">>>>
    /\ page.kind = "nonexistant"

\* C27 as claimed: a path without ":" that does not start with "/" is
\* navigated to as <domain of the page on display>:<path>.
C27_RelativePathsResolveInDomain ==
    [][\A command \in {Strip(input)} :
          (/\ Submits(command) /\ AsksForPath(command)
           /\ Unqualified(PathAsked(command)) /\ ~Absolute(PathAsked(command))) =>
              /\ action'.type = "Navigate"
              /\ action'.uri = InCurrentDomain(PathAsked(command))]_vars

\* C28: when "exit" is submitted the loop ends: the clear-screen command is
\* the last thing sent, main returns 0, no page is navigated to or displayed
\* by the step, and after it no step is taken any more: no key typed behind
\* the exit is ever handed to processInput.
C28_ExitEndsTheLoop ==
    [][/\ pc # "done"
       /\ Submits(<<"e", "x", "i", "t">>) =>
             /\ pc' = "done"
             /\ wrote' # <<>> /\ wrote'[Len(wrote')] = Cmd(CLEAR_SCREEN)
             /\ exitCode' = <<0>>
             /\ UNCHANGED <<stack, page, navLog, text, line, sent, op>>]_vars

\* main has returned 0 while the keys of "home", typed behind the exit,
\* are still waiting
C28_Witness ==
    /\ pc = "done" /\ exitCode = <<0>> /\ cmd = <<"e", "x", "i", "t">>
    /\ todo = Command(<<"h", "o", "m", "e">>)
    /\ wrote = <<Cmd(CLEAR_SCREEN)>>

\* command belongs to the grammar of the page on display: lines 470-507 of a
\* search page, 660-707 of a dictionary, 927-1008 of a calendar
PageCommand(command) ==
    \/ /\ core.kind = "search"
       /\ IsCommand(command, <<"s", "e", "a", "r", "c", "h">>) \/ command[1] = "#"
    \/ /\ core.kind = "dict"
       /\ \/ command \in { <<"r", "o", "o", "t", "s">>, <<"w", "o", "r", "d", "s">> }
          \/ IsCommand(command, <<"r", "o", "o", "t">>)
          \/ IsCommand(command, <<"w", "o", "r", "d">>)
    \/ /\ core.kind = "cal"
       /\ \/ \E word \in { <<"d", "a", "y">>, <<"m", "o", "n", "t", "h">>, <<"y", "e", "a", "r">> } :
                IsCommand(command, word)
          \/ command[1] = "#"

\* the universal grammar's handling of command, were the page a text page
OnTextPage(command) ==
    UniversalInput([Rend EXCEPT !.core = [NoCore EXCEPT !.kind = "text"]],
                   command, page, PageRoot(page, errRoot), columns)

\* C29: the grammar of the page on display is asked first.  A command of
\* that grammar ("root" on a dictionary, "#N" on a search page or a
\* calendar) is answered by the page alone: nothing is navigated to but a
\* result or an event the page offers, and the universal grammar neither
\* acts on it nor calls it unrecognized.  Every other command is handled by
\* the universal grammar as it is on a text page.
C29_PageGrammarFirst ==
    [][\A command \in {Strip(input)} :
          (Submits(command) /\ command # <<>>) =>
              IF PageCommand(command)
              THEN /\ action'.type \in {"Null", "Navigate"}
                   /\ action'.type = "Null" => UNCHANGED <<stack, page, navLog, columns, pc>>
                   /\ action'.type = "Navigate" =>
                         /\ command[1] = "#"
                         /\ Among(core.results, action'.uri) \/ Among(core.links, action'.uri)
                   /\ lastError' # <<"Unrecognized command " \o Str(command)>>
              ELSE \E u \in {OnTextPage(command)} :
                     /\ action' = u.action
                     /\ u.action.type = "None" =>
                           /\ input' = u.st.input /\ cursor' = u.st.cursor
                           /\ lastError' = u.st.lastError
                           /\ line' = u.st.line /\ text' = u.st.text]_vars

\* "root" was submitted on the dictionary page: the dictionary asked for the
\* root to look up and the domain's default page was not navigated to
C29_Witness ==
    /\ cmd = <<"r", "o", "o", "t">> /\ todo = <<>> /\ core.kind = "dict"
    /\ action.type = "Null" /\ lastError = <<"No root specified!">>
    /\ stack = <<HomeUri, <<"NX", ".", "TOOLS", ":", "/", "WORDS">>>>

(***************************************************************************)
(* More properties of the layout engine (LayoutSpec).                      *)
(***************************************************************************)
\* the first and the last line of the text, counted from 1, in the window
\* the last operation redrew
WindowFirst ==
    LET lo == IF op = "scrollDown" THEN line + ViewRows ELSE line + 1
    IN  IF lo < 1 THEN 1 ELSE lo

WindowLast ==
    LET hi == IF op = "scrollUp" THEN line + 1 ELSE line + ViewRows
    IN  Min(hi, Len(text))

\* the characters of the lines first..last of the text on display that are
\* inside a link (b = TRUE) or outside every link, the links being counted
\* from the first line of the text
LinkedInWindow(first, last, b) ==
    LET whole == Flatten(SubSeq(text, 1, last))
        skip  == Len(Flatten(SubSeq(text, 1, first - 1)))
        at    == {k \in (skip + 1)..Len(whole) : Linked(whole, k) = b}
    IN  [n \in 1..Cardinality(at) |->
            whole[CHOOSE k \in at : Cardinality({j \in at : j <= k}) = n]]

\* no link of the text on display lies inside another link
Unnested ==
    LET whole == Flatten(text)
    IN  \A k \in 1..Len(whole) :
           /\ whole[k] = "[" => ~Linked(whole, k - 1) \/ k = 1 \/ whole[k - 1] = "]"
           /\ whole[k] = "]" => Linked(whole, k)

\* the window the last operation redrew starts inside a link that an earlier
\* line, outside the window, opened
StartsInsideLink ==
    /\ op \in {"scrollUp", "scrollDown", "pageUp", "pageDown", "goToTop", "goToBottom"}
    /\ sent # <<>>
    /\ WindowFirst > 1 /\ WindowFirst <= WindowLast
    /\ Unnested
    /\ LET before == Flatten(SubSeq(text, 1, WindowFirst - 1))
       IN  Cardinality({i \in 1..Len(before) : before[i] = "["})
             > Cardinality({i \in 1..Len(before) : before[i] = "]"})

Handles(key) == pc = "poll" /\ todo # <<>> /\ Head(todo) = key /\ todo' = Tail(todo)

\* the line editor of reference: the buffer and the cursor column after key
\* is struck with the buffer b and the cursor in column c
EditorOfReference(key, b, c) ==
    CASE key \in {LEFT, RIGHT} -> [buffer |-> b, moved |-> FALSE, column |-> c]
      [] key \in {BACKSPACE, DELETE} ->
           IF c > 1 /\ b # <<>>
           THEN [buffer |-> Take(b, c - 2) \o Drop(b, c - 1), moved |-> TRUE, column |-> c - 1]
           ELSE [buffer |-> b, moved |-> TRUE, column |-> c]
      [] OTHER ->
           [buffer |-> Take(b, c - 1) \o key \o Drop(b, c - 1), moved |-> TRUE, column |-> c + 1]

\* C32: for every cursor column c from 1 to length + 1, a letter x turns the
\* buffer b into b[1..c-1] + x + b[c..] and moves the cursor to c + 1;
\* Backspace with c > 1 removes the character at c - 1 and moves the cursor to
\* c - 1; Backspace at c = 1 or on an empty buffer changes neither; Left and
\* Right never change the buffer.
C32_ReferenceLineEditor ==
    [][\A key \in EditKeys :
          (Handles(key) /\ 1 <= cursor[2] /\ cursor[2] <= Len(input) + 1) =>
              LET after == EditorOfReference(key, input, cursor[2])
              IN  /\ input' = after.buffer
                  /\ after.moved => cursor'[2] = after.column]_vars

(***************************************************************************)
(* More properties of the program as a whole (NavSpec, CmdSpec).           *)
(***************************************************************************)
\* the step, main's start or its handling of a command, ran
\* Renderer.displayPage to its end: only displayPage homes the cursor (line
\* 1031)
PageDisplayed ==
    /\ pc = "start" \/ Handles(ENTER)
    /\ Among(wrote', Cmd(MOVE_CURSOR_ORIGIN))
    /\ crash' = ""

\* C33: every page display (navigate, back, home, help, random, a change of
\* the column mode) leaves fresh layout state: the scroll offset is 0 and the
\* wrapped lines are those of the text of the page now displayed, wrapped at
\* the terminal's current number of columns; nothing of the page displayed
\* before survives.
C33_DisplayMakesFreshLayout ==
    [][PageDisplayed =>
          /\ line' = 0
          /\ text' = SplitLines(WordWrap(Source(page'), columns'))]_vars

\* main is handed the SettingAction of a "set columns=V" or "set cols=V"
ColumnsAsked ==
    /\ Handles(ENTER)
    /\ action'.type = "Setting"
    /\ action'.setting \in {"cols", "columns"}

\* the commands that switch the terminal's width
ModeSwitches == {Cmd(SET_80_COLUMNS), Cmd(SET_132_COLUMNS)}

\* C34: the terminal has 80 or 132 columns in every state; "set columns=V"
\* or "set cols=V" with V missing or neither 80 nor 132 shows an error banner,
\* sends no mode switch and leaves the columns, the page displayed and the
\* command line as they are; the columns change only on such a command
\* naming the new width, after the mode switch and the status query were
\* sent and the terminal answered that it is in order.
C34_ColumnsEightyOrWide ==
    /\ columns \in Widths
    /\ [][/\ columns' \in Widths
          /\ (ColumnsAsked /\ action'.value \notin {"80", "132"}) =>
                /\ lastError' = <<"Unrecognized column setting " \o action'.value>>
                /\ \A i \in 1..Len(wrote') : wrote'[i] \notin ModeSwitches
                /\ columns' = columns /\ input' = input
                /\ page' = page /\ text' = text /\ line' = line /\ core' = core
                /\ pc' = "poll"
          /\ columns' # columns =>
                /\ ColumnsAsked
                /\ ColumnsOf(action'.value) = columns'
                /\ SubSeq(wrote', 1, 2)
                     = << Cmd(IF columns' = 80 THEN SET_80_COLUMNS ELSE SET_132_COLUMNS),
                          Cmd(REQUEST_STATUS) >>
                /\ crash' = ""
          /\ crash' = "Terminal is not okay!" => columns' = columns]_vars

\* the terminal was switched to 132 columns, and a "set cols = 90" submitted
\* after that was turned down
C34_Witness ==
    /\ columns = 132
    /\ pc = "poll" /\ todo = <<>>
    /\ action.type = "Setting" /\ action.value = "90"
    /\ lastError = <<"Unrecognized column setting 90">>

\* the actions main answers with nav.navigate or nav.back, lines 1389-1397
\* and 1422-1428
Navigating == {"Navigate", "Home", "Back", "Random", "Help"}

\* C35: whenever main has completed an action (a navigation, home, help,
\* random, back with or without history, a change of a setting, a failed or
\* unrecognized command) and polls again, the page the renderer holds is the
\* page Wiki.getPage returns for the identifier on top of the navigation
\* stack; the stack changes only at the start and in the handling of a
\* submitted command that navigates, never in a scroll, a change of a
\* setting or a command turned down.
C35_PageIsTopOfStack ==
    /\ [](pc = "poll" =>
            /\ stack # <<>>
            /\ GetPage(stack[Len(stack)]).ok
            /\ page = GetPage(stack[Len(stack)]).page)
    /\ [][stack' # stack =>
            \/ pc = "start"
            \/ Handles(ENTER) /\ action'.type \in Navigating]_vars

\* the user went to a page and came back to the one before: the stack is
\* one identifier again and the page is the one it names
C35_Witness ==
    /\ pc = "poll" /\ todo = <<>>
    /\ action.type = "Back"
    /\ Len(stack) = 1
    /\ Len(navLog) = 3
    /\ page = GetPage(HomeUri).page

(***************************************************************************)
(* The viewport as the terminal shows it.  The terminal is a VT100 in new  *)
(* line mode (its Return key sends the "\n" that processInput submits on,  *)
(* line 1248, and a "\n" it receives starts the next row): it obeys the    *)
(* scroll region, cursor moves, line clears and scrolls by one row.  A row *)
(* is the sequence of its characters without the blanks at its end; the    *)
(* cursor is in row r of the viewport (0: outside it) and column c.        *)
(***************************************************************************)
\* s without the spaces at its end
RTrim(s) ==
    LET inked == { i \in 1..Len(s) : s[i] # SP }
    IN  IF inked = {} THEN <<>>
        ELSE SubSeq(s, 1, CHOOSE i \in inked : \A j \in inked : j <= i)

NoRows == [i \in 1..ViewRows |-> <<>>]

\* the viewport with these rows, the cursor on the command line
Viewport(rows, cols) ==
    [rows |-> rows, r |-> 0, c |-> 1, saved |-> <<0, 1>>, origin |-> FALSE, cols |-> cols]

\* the row after s is written into it from column c on
Typed(row, c, s, cols) ==
    LET width == IF Len(row) > c - 1 + Len(s) THEN Len(row) ELSE c - 1 + Len(s)
        all   == [i \in 1..width |->
                    IF i >= c /\ i < c + Len(s) THEN s[i - c + 1]
                    ELSE IF i <= Len(row) THEN row[i] ELSE SP]
    IN  RTrim(Take(all, cols))

\* the cursor moves down a row; in the last row of the scroll region the
\* region moves up a row instead
IndexDown(scr) ==
    IF scr.r = 0 THEN scr
    ELSE IF scr.r < ViewRows THEN [scr EXCEPT !.r = @ + 1]
    ELSE [scr EXCEPT !.rows = [i \in 1..ViewRows |-> IF i < ViewRows THEN scr.rows[i + 1] ELSE <<>>]]

\* the cursor moves up a row; in the first row of the scroll region the
\* region moves down a row instead
IndexUp(scr) ==
    IF scr.r = 0 THEN scr
    ELSE IF scr.r > 1 THEN [scr EXCEPT !.r = @ - 1]
    ELSE [scr EXCEPT !.rows = [i \in 1..ViewRows |-> IF i > 1 THEN scr.rows[i - 1] ELSE <<>>]]

\* the terminal obeys one item sent to it
Obey(scr, it) ==
    CASE it = Cmd(SAVE_CURSOR) -> [scr EXCEPT !.saved = <<scr.r, scr.c>>]
      [] it = Cmd(RESTORE_CURSOR) -> [scr EXCEPT !.r = scr.saved[1], !.c = scr.saved[2]]
      [] it \in {Cmd(SET_NORMAL), Cmd(SET_BOLD)} -> scr
      [] it = MoveCursor(ViewTop, 1) ->
           [scr EXCEPT !.r = IF scr.origin THEN ViewTop ELSE 1, !.c = 1]
      [] it = MoveCursor(ViewBottom, 1) -> [scr EXCEPT !.r = ViewRows, !.c = 1]
      [] it = SetScrollRegion(ViewTop, ViewBottom)[1] ->
           [scr EXCEPT !.r = IF scr.origin THEN 1 ELSE 0, !.c = 1]
      [] it = Cmd(TURN_ON_REGION) -> [scr EXCEPT !.origin = TRUE, !.r = 1, !.c = 1]
      [] it = Cmd(TURN_OFF_REGION) -> [scr EXCEPT !.origin = FALSE, !.r = 0, !.c = 1]
      [] it = Cmd(MOVE_CURSOR_UP) -> IndexUp(scr)
      [] it = Cmd(MOVE_CURSOR_DOWN) -> IndexDown(scr)
      [] it = <<NL>> -> [IndexDown(scr) EXCEPT !.c = 1]
      [] it = Cmd(CLEAR_TO_END_OF_LINE) ->
           IF scr.r = 0 THEN scr
           ELSE [scr EXCEPT !.rows[scr.r] = RTrim(Take(@, scr.c - 1))]
      [] it = Cmd(CLEAR_LINE) ->
           IF scr.r = 0 THEN scr ELSE [scr EXCEPT !.rows[scr.r] = <<>>]
      [] OTHER ->
           IF scr.r = 0 THEN scr
           ELSE [scr EXCEPT !.rows[scr.r] = Typed(@, scr.c, it, scr.cols),
                            !.c = Min(scr.c + Len(it), scr.cols)]

\* the terminal obeys the items from the k-th on
RECURSIVE ObeyFrom(_, _, _)
ObeyFrom(scr, items, k) ==
    IF k > Len(items) THEN scr
    ELSE CHOOSE r \in { ObeyFrom(s, items, k + 1) : s \in {Obey(scr, items[k])} } : TRUE

\* the rows of the viewport after the terminal obeyed the items
Painted(rows, items, cols) == ObeyFrom(Viewport(rows, cols), items, 1).rows

\* what a full repaint of the text txt at the offset off shows: row i holds
\* line off + i, the rows past the end of the text are blank
Repaint(txt, off) ==
    [i \in 1..ViewRows |->
        IF off + i >= 1 /\ off + i <= Len(txt) THEN RTrim(txt[off + i]) ELSE <<>>]

\* C36: every operation of the layout engine leaves the viewport showing what
\* a full repaint at the offset it leaves would show: displayText does so on
\* the viewport its caller cleared, and scrollUp, scrollDown, pageUp,
\* pageDown, goToTop and goToBottom do so on a viewport that shows the
\* repaint at the offset before, an offset in 0..max(0, total - rows).  Row i
\* holds wrapped line offset + i, and rows past the end of the text are
\* blank.
C36_ViewportIsRepaint ==
    [][/\ op' = "displayText" =>
             Painted(NoRows, sent', columns) = Repaint(text', line')
       /\ (op' # "displayText" /\ 0 <= line /\ line <= MaxOffset) =>
             Painted(Repaint(text, line), sent', columns) = Repaint(text', line')]_vars

\* the terminal after it obeyed the items, the cursor having been in column
\* col of the command line
AfterItems(items, col) ==
    ObeyFrom([Viewport(NoRows, columns) EXCEPT !.c = col], items, 1)

\* every SAVE_CURSOR among the items is followed by a RESTORE_CURSOR before
\* the next SAVE_CURSOR, and the items end with that RESTORE_CURSOR
SavesRestored(items) ==
    /\ \A k \in 1..Len(items) :
          items[k] = Cmd(SAVE_CURSOR) =>
              \E j \in (k + 1)..Len(items) :
                 /\ items[j] = Cmd(RESTORE_CURSOR)
                 /\ \A i \in (k + 1)..(j - 1) : items[i] # Cmd(SAVE_CURSOR)
    /\ items # <<>> => items[Len(items)] = Cmd(RESTORE_CURSOR)

\* every scroll region set among the items is cleared again before the
\* cursor is restored
RegionsCleared(items) ==
    \A k \in 1..Len(items) :
       items[k] = Cmd(TURN_ON_REGION) =>
           \E j \in (k + 1)..(Len(items) - 1) :
              /\ items[j] = Cmd(TURN_OFF_REGION)
              /\ \A i \in (j + 1)..Len(items) : items[i] # Cmd(TURN_ON_REGION)

\* C37: an Up or Down key, whether or not it moves the offset, leaves the
\* command line, the place of the cursor on it, the navigation stack and the
\* number of columns as they are: each SAVE_CURSOR the scroll sends is
\* matched by a RESTORE_CURSOR, which brings the terminal's cursor back to
\* where it was, and the scroll region it sets is cleared before that.
C37_ScrollKeysLeaveCommandLine ==
    [][(Handles(UP) \/ Handles(DOWN)) =>
          /\ input' = input /\ cursor' = cursor
          /\ stack' = stack /\ columns' = columns
          /\ op' \in {"scrollUp", "scrollDown"}
          /\ SavesRestored(sent') /\ RegionsCleared(sent')
          /\ AfterItems(sent', cursor[2]).r = 0
          /\ AfterItems(sent', cursor[2]).c = cursor[2]
          /\ ~AfterItems(sent', cursor[2]).origin]_vars

\* Down was struck after "bot" had been typed: the offset moved, the command
\* line and the cursor behind it are as before
C37_Witness ==
    /\ op = "scrollDown" /\ line = 1 /\ lineBefore = 0
    /\ sent # <<>>
    /\ input = <<"b", "o", "t">>
    /\ cursor = <<TerminalRows, 4>>

\* C38: while the user has typed nothing but letters (no cursor key, no
\* Backspace, no Enter) and processInput has handled them all, the command
\* line holds the letters typed, in the order typed, however many they are,
\* the terminal's width or more included.
C38_BufferIsWhatWasTyped ==
    (pc = "poll" /\ todo = <<>> /\ \A i \in 1..Len(typed) : typed[i] \in Letters) =>
        input = [i \in 1..Len(typed) |-> typed[i][1]]

(***************************************************************************)
(* More properties of wordWrap (WrapSpec).                                 *)
(***************************************************************************)
\* s without its spaces and newlines
Squeezed(s) == SelectSeq(s, LAMBDA ch : ch \notin {SP, NL})

\* s without its spaces and line breaks, a carriage return that a newline
\* follows being part of the line break
SqueezedText(s) ==
    Squeezed([i \in 1..Len(s) |->
                 IF s[i] = "\r" /\ i < Len(s) /\ s[i + 1] = NL THEN NL ELSE s[i]])

\* out is the text in with line breaks put in, some of them in the place of
\* one space each, and nothing else changed (a carriage return before a
\* newline aside)
RECURSIVE BrokenFrom(_, _)
BrokenFrom(in, out) ==
    IF out = <<>> THEN in = <<>>
    ELSE \/ in # <<>> /\ in[1] = out[1] /\ BrokenFrom(Tail(in), Tail(out))
         \/ Len(in) >= 2 /\ in[1] = "\r" /\ in[2] = NL /\ BrokenFrom(Tail(in), out)
         \/ out[1] = NL /\ in # <<>> /\ in[1] = SP /\ BrokenFrom(Tail(in), Tail(out))
         \/ out[1] = NL /\ BrokenFrom(in, Tail(out))

\* C39: wordWrap loses, doubles and reorders nothing: what it returns,
\* without its spaces and line breaks, is the text it was given without its
\* spaces and line breaks (CRLF being a line break), and the only characters
\* of the text it leaves out are single spaces, each where it breaks a line.
C39_WrapKeepsTheText ==
    pc # "wrap" =>
        /\ Squeezed(wrapped) = SqueezedText(source)
        /\ BrokenFrom(source, wrapped)

\* a text with two spaces in a row, a line break and a carriage return has
\* been wrapped, a space giving way to a line break
C39_Witness ==
    /\ pc = "rewrap" /\ columns = 1
    /\ source = <<"a", SP, SP, "\r", NL>>
    /\ Len(wrapped) = Len(source) - 1

\* a pass of the loop that leaves wordWrap in the loop
PassMade == pc = "pass" /\ restText # <<>> /\ pc' = "pass"

\* C40: wordWrap comes to its return for every text and every width of at
\* least 1: each pass of its loop consumes at least one character of what is
\* left of the text, or it flushes a current line that is not empty and the
\* pass after it consumes at least one character; that holds also when a
\* word filled the line exactly and the space left is negative.  What it
\* returns then is what WordWrap computes.
C40_WrapTerminates ==
    /\ [][PassMade =>
            \/ Len(restText') < Len(restText)
            \/ /\ restText' = restText
               /\ currentLine # <<>> /\ currentLine' = <<>>
               /\ Len(WrapPass(restText', joinedText', currentLine', columns).text)
                    < Len(restText')]_vars
    /\ <>(pc = "done")
    /\ [](pc = "done" => wrapped = WordWrap(source, columns))

\* a word has filled the line exactly, a newline stands in the place of the
\* space after it and the space left is negative, with text still to wrap
C40_Witness ==
    /\ pc = "pass" /\ restText # <<>>
    /\ Len(currentLine) > columns
    /\ currentLine[Len(currentLine)] = NL

====
